---- MODULE Spec2Model ----
(***************************************************************************)
(* cratup: locating, filtering and rewriting version declarations of       *)
(* Cargo.toml manifests.                                                   *)
(*                                                                         *)
(* A source text is a sequence of elements.  An element is the unit the    *)
(* byte offsets of the syntax tree count: a punctuation mark, a line end,  *)
(* a bare key word, a scalar word, or one character of a string literal.   *)
(* A string literal is spelled character by character between two double  *)
(* quote elements, so quoting and quote stripping are computed, and a      *)
(* replaced literal may change the length of the source.                   *)
(***************************************************************************)
EXTENDS Integers, Sequences, FiniteSets, TLC

Q == "\""
NL == "\n"

None == <<>>
Some(x) == <<x>>

(***************************************************************************)
(* Bounds of the model.                                                    *)
(***************************************************************************)
MaxDeps == 2
MaxIteration == 8

(***************************************************************************)
(* String helpers of the Rust standard library, as the code uses them.    *)
(***************************************************************************)
\* s.replace("\"", "")
strip_quotes(s) == SelectSeq(s, LAMBDA c : c # Q)

\* format!("\"{}\"", v)
quoted(v) == <<Q>> \o v \o <<Q>>

IsSpace(c) == c \in {NL, " "}

RECURSIVE trim_start(_)
trim_start(s) ==
    IF s # <<>> /\ IsSpace(Head(s)) THEN trim_start(Tail(s)) ELSE s

RECURSIVE trim_end(_)
trim_end(s) ==
    IF s # <<>> /\ IsSpace(s[Len(s)]) THEN trim_end(SubSeq(s, 1, Len(s) - 1)) ELSE s

\* str::trim
trim(s) == trim_end(trim_start(s))

(***************************************************************************)
(* The syntax tree.  A node carries its kind, its byte span [start, end)   *)
(* (0-based, end exclusive, as tree-sitter's start_byte and end_byte) and  *)
(* its named children in source order.  The parser covers the part of the  *)
(* TOML grammar manifests use: top-level pairs, [key] tables, pairs whose  *)
(* value is a string, a scalar, an array or an inline table.  In the       *)
(* parser p is the 1-based position of an element and q the position one   *)
(* past a node.                                                            *)
(***************************************************************************)
MkNode(kind, p, q, children) ==
    [kind |-> kind, start |-> p - 1, end |-> q - 1, children |-> children]

\* least j >= i with src[j] = c, or Len(src) + 1
RECURSIVE IndexFrom(_, _, _)
IndexFrom(src, i, c) ==
    IF i > Len(src) THEN Len(src) + 1
    ELSE IF src[i] = c THEN i
    ELSE IndexFrom(src, i + 1, c)

ParseKey(src, p) == MkNode("bare_key", p, p + 1, <<>>)

RECURSIVE ParseValue(_, _)
RECURSIVE ParseInlinePairs(_, _, _)
RECURSIVE ParseArrayItems(_, _, _)

\* the position after an item of an inline table or array, past its comma
AfterItem(src, q, close) == IF q < close /\ src[q] = "," THEN q + 1 ELSE q

InlinePairsFrom(src, p, close, v) ==
    <<MkNode("pair", p, v.end + 1, <<ParseKey(src, p), v>>)>>
        \o ParseInlinePairs(src, AfterItem(src, v.end + 1, close), close)

ParseInlinePairs(src, p, close) ==
    IF p >= close THEN <<>>
    ELSE InlinePairsFrom(src, p, close, ParseValue(src, p + 2))

ArrayItemsFrom(src, close, v) ==
    <<v>> \o ParseArrayItems(src, AfterItem(src, v.end + 1, close), close)

ParseArrayItems(src, p, close) ==
    IF p >= close THEN <<>>
    ELSE ArrayItemsFrom(src, close, ParseValue(src, p))

InlineTableNode(src, p, close) ==
    MkNode("inline_table", p, close + 1, ParseInlinePairs(src, p + 1, close))

ArrayNode(src, p, close) ==
    MkNode("array", p, close + 1, ParseArrayItems(src, p + 1, close))

ParseValue(src, p) ==
    CASE src[p] = Q -> MkNode("string", p, IndexFrom(src, p + 1, Q) + 1, <<>>)
      [] src[p] = "{" -> InlineTableNode(src, p, IndexFrom(src, p + 1, "}"))
      [] src[p] = "[" -> ArrayNode(src, p, IndexFrom(src, p + 1, "]"))
      [] OTHER ->
           MkNode(IF src[p] \in {"true", "false"} THEN "boolean" ELSE "integer",
                  p, p + 1, <<>>)

\* a pair of a table takes its line ending with it
PairLineEnd(src, q) == IF q <= Len(src) /\ src[q] = NL THEN q + 1 ELSE q

PairLinesCons(pair, rest) == [nodes |-> <<pair>> \o rest.nodes, next |-> rest.next]

\* the pairs and blank lines from p up to the next table header or the end
RECURSIVE ParsePairLines(_, _)

PairLineFrom(src, p, v, q) ==
    PairLinesCons(MkNode("pair", p, q, <<ParseKey(src, p), v>>), ParsePairLines(src, q))

PairLineWith(src, p, v) == PairLineFrom(src, p, v, PairLineEnd(src, v.end + 1))

ParsePairLines(src, p) ==
    IF p > Len(src) \/ src[p] = "[" THEN [nodes |-> <<>>, next |-> p]
    ELSE IF src[p] = NL THEN ParsePairLines(src, p + 1)
    ELSE PairLineWith(src, p, ParseValue(src, p + 2))

RECURSIVE ParseTables(_, _)

TableFrom(src, p, body) ==
    <<MkNode("table", p, body.next, <<ParseKey(src, p + 1)>> \o body.nodes)>>
        \o ParseTables(src, body.next)

ParseTables(src, p) ==
    IF p > Len(src) THEN <<>>
    ELSE TableFrom(src, p, ParsePairLines(src, p + 3))

DocumentFrom(src, top) ==
    MkNode("document", 1, Len(src) + 1, top.nodes \o ParseTables(src, top.next))

ParseDocument(src) == DocumentFrom(src, ParsePairLines(src, 1))

\* TomlParser::new returning Ok whatever the parser does
TomlParser_new_always(source, ok) ==
    Some([source |-> source, tree |-> ParseDocument(source)])

\* TomlParser::new: Err when the grammar cannot be loaded or the parse is refused
TomlParser_new(source, ok) ==
    IF ok THEN Some([source |-> source, tree |-> ParseDocument(source)]) ELSE None

\* node.utf8_text(source)
utf8_text(source, node) == SubSeq(source, node.start + 1, node.end)

\* node.children(..).filter(|c| c.kind() == kind)
ChildrenOfKind(node, kind) == SelectSeq(node.children, LAMBDA c : c.kind = kind)

\* a.or_else(|| b)
FirstSome(a, b) == IF a # None THEN a ELSE b

RECURSIVE find_child_by_kind(_, _)

ChildMatch(child, kind) ==
    IF child.kind = kind THEN Some(child) ELSE find_child_by_kind(child, kind)

RECURSIVE FindChildFrom(_, _, _)
FindChildFrom(node, kind, i) ==
    IF i > Len(node.children) THEN None
    ELSE FirstSome(ChildMatch(node.children[i], kind), FindChildFrom(node, kind, i + 1))

find_child_by_kind(node, kind) == FindChildFrom(node, kind, 1)

(***************************************************************************)
(* Entity extraction (tree_traversal.rs).  An Option is None or Some(x).   *)
(* A HashMap<Node, DepsInfo> is a set of <<node, info>> pairs: its keys    *)
(* are distinct nodes and it has no order of its own.                      *)
(***************************************************************************)
MkInfo(name, version, name_pair, version_pair) ==
    [name |-> name, version |-> version,
     name_pair |-> name_pair, version_pair |-> version_pair]

\* the trimmed text of an optional node
TextOfOpt(source, node_opt) ==
    IF node_opt = None THEN None ELSE Some(trim(utf8_text(source, node_opt[1])))

\* the trimmed text of the first bare_key under a node
KeyTextOf(source, node) == TextOfOpt(source, find_child_by_kind(node, "bare_key"))

IsKey(key_text_opt, word) == key_text_opt # None /\ key_text_opt[1] = <<word>>

\* the body of the for_each closure of extract_pkg_info on one pair
PkgPairStep(source, acc, pair_text, key_text_opt, string_node) ==
    IF key_text_opt = None THEN acc
    ELSE IF ~(IsKey(key_text_opt, "name") \/ IsKey(key_text_opt, "version")) THEN acc
    ELSE IF string_node = None THEN acc
    ELSE IF IsKey(key_text_opt, "name")
         THEN [acc EXCEPT
                 !.name_opt = Some(strip_quotes(trim(utf8_text(source, string_node[1])))),
                 !.name_pair_opt = Some(pair_text)]
         ELSE [acc EXCEPT
                 !.version_opt = Some(strip_quotes(trim(utf8_text(source, string_node[1])))),
                 !.version_pair_opt = Some(pair_text),
                 !.version_node_opt = Some(string_node[1])]

RECURSIVE PkgInfoFold(_, _, _, _)
PkgInfoFold(source, pairs, i, acc) ==
    IF i > Len(pairs) THEN acc
    ELSE PkgInfoFold(source, pairs, i + 1,
                     PkgPairStep(source, acc, trim(utf8_text(source, pairs[i])),
                                 KeyTextOf(source, pairs[i]),
                                 find_child_by_kind(pairs[i], "string")))

\* the final match of extract_pkg_info: all five found, or nothing
PkgInfoOf(acc) ==
    IF /\ acc.version_node_opt # None /\ acc.name_opt # None
       /\ acc.version_opt # None /\ acc.name_pair_opt # None
       /\ acc.version_pair_opt # None
    THEN Some(<<acc.version_node_opt[1],
                MkInfo(acc.name_opt[1], acc.version_opt[1],
                       acc.name_pair_opt[1], acc.version_pair_opt[1])>>)
    ELSE None

extract_pkg_info(source, table_node) ==
    PkgInfoOf(PkgInfoFold(source, ChildrenOfKind(table_node, "pair"), 1,
                          [name_opt |-> None, version_opt |-> None,
                           name_pair_opt |-> None, version_pair_opt |-> None,
                           version_node_opt |-> None]))

\* the filter_map closure of extract_version_from_inline_table on one pair
VersionOfPair(source, pair_node, key_text_opt, string_node) ==
    IF ~IsKey(key_text_opt, "version") THEN None
    ELSE IF string_node = None THEN None
    ELSE Some(<<strip_quotes(trim(utf8_text(source, string_node[1]))),
                trim(utf8_text(source, pair_node)),
                string_node[1]>>)

\* .next(): the first pair, from i on, that gives a version
RECURSIVE VersionFromPairs(_, _, _)
VersionFromPairs(source, pairs, i) ==
    IF i > Len(pairs) THEN None
    ELSE FirstSome(VersionOfPair(source, pairs[i], KeyTextOf(source, pairs[i]),
                                 find_child_by_kind(pairs[i], "string")),
                   VersionFromPairs(source, pairs, i + 1))

extract_version_from_inline_table(source, inline_table_node) ==
    VersionFromPairs(source, ChildrenOfKind(inline_table_node, "pair"), 1)

VersionInfoOf(source, inline) ==
    IF inline = None THEN None
    ELSE extract_version_from_inline_table(source, inline[1])

DepEntry(source, pair_node, dep_name_opt, version_info_opt) ==
    IF dep_name_opt = None THEN None
    ELSE IF version_info_opt = None THEN None
    ELSE Some(<<version_info_opt[1][3],
                MkInfo(dep_name_opt[1], version_info_opt[1][1],
                       trim(utf8_text(source, pair_node)),
                       version_info_opt[1][2])>>)

\* the filter_map closure of extract_deps_info on one pair: None or Some(<<node, info>>)
DepOfPair(source, pair_node) ==
    DepEntry(source, pair_node, KeyTextOf(source, pair_node),
             VersionInfoOf(source, find_child_by_kind(pair_node, "inline_table")))

\* collect() of the Some values into a map
SomeValues(opts) == {opts[i][1] : i \in {j \in DOMAIN opts : opts[j] # None}}

DepsOfPairs(source, pairs) ==
    SomeValues([i \in DOMAIN pairs |-> DepOfPair(source, pairs[i])])

extract_deps_info(source, table_node) ==
    DepsOfPairs(source, ChildrenOfKind(table_node, "pair"))

NonEmptyDeps(deps_info) == IF deps_info # {} THEN Some(deps_info) ELSE None

find_deps_in_table(source, table_node) ==
    IF IsKey(KeyTextOf(source, table_node), "dependencies")
    THEN NonEmptyDeps(extract_deps_info(source, table_node))
    ELSE None

find_package_in_table(source, table_node) ==
    IF IsKey(KeyTextOf(source, table_node), "package")
    THEN extract_pkg_info(source, table_node)
    ELSE None

\* the body of the for_each closure of find_package_and_deps on a table
TableStep(acc, deps_in_table, pkg_tuple) ==
    [package |-> IF pkg_tuple # None THEN pkg_tuple ELSE acc.package,
     dependencies |->
         IF deps_in_table # None
         THEN acc.dependencies \cup deps_in_table[1]
         ELSE acc.dependencies]

ChildStep(source, child, acc) ==
    IF child.kind # "table" THEN acc
    ELSE TableStep(acc, find_deps_in_table(source, child),
                   find_package_in_table(source, child))

RECURSIVE PackageAndDepsFold(_, _, _, _)
PackageAndDepsFold(source, children, i, acc) ==
    IF i > Len(children) THEN acc
    ELSE PackageAndDepsFold(source, children, i + 1, ChildStep(source, children[i], acc))

\* the final if let of find_package_and_deps, made to return the record for
\* dependencies alone as well
RecordOf_or_deps(acc) ==
    IF acc.package # None \/ acc.dependencies # {} THEN Some(acc) ELSE None

\* the final if let of find_package_and_deps
RecordOf(acc) == IF acc.package # None THEN Some(acc) ELSE None

\* TomlParser::find_package_and_deps: Option<PackageAndDepsNodes>
find_package_and_deps(parser) ==
    IF parser.tree.kind # "document" THEN None
    ELSE RecordOf(PackageAndDepsFold(parser.source, parser.tree.children, 1,
                                     [package |-> None, dependencies |-> {}]))

PkgInfoOfTuple(pkg_tuple) == IF pkg_tuple = None THEN None ELSE Some(pkg_tuple[1][2])

PackageOfChild(source, child) ==
    IF child.kind = "table" THEN PkgInfoOfTuple(find_package_in_table(source, child))
    ELSE None

\* the find_map of find_package, applied to the children from i on
RECURSIVE FindPackageFrom(_, _, _)
FindPackageFrom(source, children, i) ==
    IF i > Len(children) THEN None
    ELSE FirstSome(PackageOfChild(source, children[i]),
                   FindPackageFrom(source, children, i + 1))

\* TomlParser::find_package: Option<PkgInfo>
find_package(parser) ==
    IF parser.tree.kind # "document" THEN None
    ELSE FindPackageFrom(parser.source, parser.tree.children, 1)

DepsOfOpt(deps_in_table) == IF deps_in_table = None THEN {} ELSE deps_in_table[1]

DepsOfChild(source, child) ==
    IF child.kind = "table" THEN DepsOfOpt(find_deps_in_table(source, child)) ELSE {}

\* the for_each of find_deps_only, applied to the children from i on
RECURSIVE DepsOnlyFold(_, _, _)
DepsOnlyFold(source, children, i) ==
    IF i > Len(children) THEN {}
    ELSE DepsOfChild(source, children[i]) \cup DepsOnlyFold(source, children, i + 1)

\* TomlParser::find_deps_only: Option<HashMap<Node, DepsInfo>>
find_deps_only(parser) ==
    IF parser.tree.kind # "document" THEN None
    ELSE NonEmptyDeps(DepsOnlyFold(parser.source, parser.tree.children, 1))

\* edit_node keeping the byte at end_byte - 1 of the node
edit_span_short(source, start_byte, end_byte, new_value) ==
    SubSeq(source, 1, start_byte) \o new_value
        \o SubSeq(source, IF end_byte > start_byte THEN end_byte ELSE end_byte + 1, Len(source))

\* TomlParser::edit_node, on the byte span of the node
edit_span(source, start_byte, end_byte, new_value) ==
    SubSeq(source, 1, start_byte) \o new_value \o SubSeq(source, end_byte + 1, Len(source))

edit_node(source, node, new_value) ==
    edit_span(source, node.start, node.end, new_value)

(***************************************************************************)
(* The edit engine (version_finder.rs).  A VersionUpdate is a record       *)
(* [package_name, current_version, new_version], package_name an Option.   *)
(***************************************************************************)
\* the match arms ignoring the name
MatchesUpdate_version_only(self, info) ==
    info.version = self.current_version

\* the match arms comparing only the name when a name is given
MatchesUpdate_name_only(self, info) ==
    IF self.package_name # None
    THEN info.name = self.package_name[1]
    ELSE info.version = self.current_version

MatchesUpdate(self, info) ==
    IF self.package_name # None
    THEN info.name = self.package_name[1] /\ info.version = self.current_version
    ELSE info.version = self.current_version

\* filter_package_and_deps with the dependencies kept only under a name filter
filter_package_and_deps_named_only(self, pkg_and_deps) ==
    [package |->
        IF pkg_and_deps.package # None /\ MatchesUpdate(self, pkg_and_deps.package[1][2])
        THEN pkg_and_deps.package
        ELSE None,
     dependencies |->
        {d \in pkg_and_deps.dependencies :
            self.package_name # None /\ MatchesUpdate(self, d[2])}]

\* VersionUpdate::filter_package_and_deps
filter_package_and_deps(self, pkg_and_deps) ==
    [package |->
        IF pkg_and_deps.package # None /\ MatchesUpdate(self, pkg_and_deps.package[1][2])
        THEN pkg_and_deps.package
        ELSE None,
     dependencies |->
        {d \in pkg_and_deps.dependencies : MatchesUpdate(self, d[2])}]

\* the edit of update_pass, writing the current version instead of the new one
EditFiltered_current_version(self, source, filtered) ==
    IF filtered.package # None
    THEN {Some(edit_node(source, filtered.package[1][1], quoted(self.current_version)))}
    ELSE IF filtered.dependencies # {}
    THEN {Some(edit_node(source, d[1], quoted(self.current_version))) :
             d \in filtered.dependencies}
    ELSE {None}

\* the edit of update_pass, looking at the dependencies before the package
EditFiltered_deps_first(self, source, filtered) ==
    IF filtered.dependencies # {}
    THEN {Some(edit_node(source, d[1], quoted(self.new_version))) :
             d \in filtered.dependencies}
    ELSE IF filtered.package # None
    THEN {Some(edit_node(source, filtered.package[1][1], quoted(self.new_version)))}
    ELSE {None}

\* update_pass from the filtered record on: the package if it is kept, else
\* filtered.dependencies.iter().next(), whichever entry the hash map yields
\* first.  The result is the set of values the call can return.
EditFiltered(self, source, filtered) ==
    IF filtered.package # None
    THEN {Some(edit_node(source, filtered.package[1][1], quoted(self.new_version)))}
    ELSE IF filtered.dependencies # {}
    THEN {Some(edit_node(source, d[1], quoted(self.new_version))) :
             d \in filtered.dependencies}
    ELSE {None}

\* update_pass from the extracted record on
PassOnRecord(self, source, found) ==
    IF found = None THEN {None}
    ELSE EditFiltered(self, source, filter_package_and_deps(self, found[1]))

\* update_pass from the parser on
PassWithParser(self, source, version_finder) ==
    IF version_finder = None THEN {None}
    ELSE PassOnRecord(self, source, find_package_and_deps(version_finder[1]))

\* VersionUpdate::update_pass: the set of values the call can return
update_pass(self, source, ok) ==
    PassWithParser(self, source, TomlParser_new(source, ok))

\* impl From<PackageAndDepsNodes> for PackageAndDeps: the dependencies become a
\* Vec in the order the hash map yields them, any order of the entries
Permutations_of(S) ==
    {s \in [1..Cardinality(S) -> S] : \A x \in S : \E i \in 1..Cardinality(S) : s[i] = x}

\* the conversion losing the package of some records
PackageAndDeps_from_lossy(nodes) ==
    {[package |-> p,
      dependencies |-> [i \in DOMAIN order |-> order[i][2]]] :
        p \in {None, PkgInfoOfTuple(nodes.package)},
        order \in Permutations_of(nodes.dependencies)}

PackageAndDeps_from(nodes) ==
    {[package |-> PkgInfoOfTuple(nodes.package),
      dependencies |-> [i \in DOMAIN order |-> order[i][2]]] :
        order \in Permutations_of(nodes.dependencies)}

\* PackageAndDeps::count
count(pkg_and_deps) ==
    (IF pkg_and_deps.package # None THEN 1 ELSE 0) + Len(pkg_and_deps.dependencies)

FilteredOfRecord(self, found) ==
    IF found = None THEN {None}
    ELSE {Some(r) : r \in PackageAndDeps_from(filter_package_and_deps(self, found[1]))}

FilteredWithParser(self, version_finder) ==
    IF version_finder = None THEN {None}
    ELSE FilteredOfRecord(self, find_package_and_deps(version_finder[1]))

\* VersionUpdate::filtered_pkg_and_deps: the set of values the call can return
filtered_pkg_and_deps(self, source, ok) ==
    FilteredWithParser(self, TomlParser_new(source, ok))

(***************************************************************************)
(* Search (search.rs).  A directory is the sequence of its Cargo.toml      *)
(* files in the order WalkDir yields them, each [path, content]; a path is *)
(* the sequence of its components below the root, and a pattern of         *)
(* components stands for the substring str::contains looks for.  A         *)
(* PackageAndDeps is [package, dependencies], package an Option<PkgInfo>,  *)
(* dependencies a Vec<DepsInfo>.                                           *)
(***************************************************************************)
path_contains(path, pattern) ==
    \E i \in 1..(Len(path) - Len(pattern) + 1) :
        SubSeq(path, i, i + Len(pattern) - 1) = pattern

\* .into_iter().flatten().collect() of a Vec<Option<T>>
Flatten(opts) ==
    [i \in 1..Len(SelectSeq(opts, LAMBDA o : o # None)) |->
        SelectSeq(opts, LAMBDA o : o # None)[i][1]]

\* the map closure of load_dirs_pkgs_deps from the extracted record on: the
\* dependencies are collected in the order the hash map yields them
LoadedOf(path, found) ==
    IF found = None THEN {None}
    ELSE {Some(<<path, r>>) : r \in PackageAndDeps_from(found[1])}

LoadFile(file) ==
    LoadedOf(file.path, find_package_and_deps(TomlParser_new(file.content, TRUE)[1]))

\* the values the map over the files from i on can yield
RECURSIVE LoadFrom(_, _)
LoadFrom(dir, i) ==
    IF i > Len(dir) THEN {<<>>}
    ELSE {<<h>> \o t : h \in LoadFile(dir[i]), t \in LoadFrom(dir, i + 1)}

OutsideTarget(entries) ==
    SelectSeq(entries, LAMBDA e : ~path_contains(e[1], <<"target">>))

\* load_dirs_pkgs_deps: the set of values the call can return
load_dirs_pkgs_deps(dir) == {OutsideTarget(Flatten(l)) : l \in LoadFrom(dir, 1)}

PkgOfFile(path, pkg_info) ==
    IF pkg_info = None THEN None ELSE Some(<<path, pkg_info[1]>>)

PkgsOf(files) ==
    Flatten([i \in DOMAIN files |->
                PkgOfFile(files[i].path,
                          find_package(TomlParser_new(files[i].content, TRUE)[1]))])

\* load_dirs_pkgs: Vec<(PathBuf, PkgInfo)>
load_dirs_pkgs(dir) ==
    PkgsOf(SelectSeq(dir, LAMBDA f :
              ~(path_contains(f.path, <<"target", "release">>)
                  \/ path_contains(f.path, <<"target", "debug">>))))

Min3(a, b, c) ==
    IF a <= b /\ a <= c THEN a ELSE IF b <= c THEN b ELSE c

\* strsim::levenshtein
RECURSIVE levenshtein(_, _)
levenshtein(a, b) ==
    IF Len(a) = 0 THEN Len(b)
    ELSE IF Len(b) = 0 THEN Len(a)
    ELSE Min3(levenshtein(Tail(a), b) + 1,
              levenshtein(a, Tail(b)) + 1,
              levenshtein(Tail(a), Tail(b)) + (IF Head(a) = Head(b) THEN 0 ELSE 1))

\* min_by_key keeping the last of several minima
RECURSIVE min_by_key_last(_, _, _)
min_by_key_last(items, i, best) ==
    IF i > Len(items) THEN best
    ELSE min_by_key_last(items, i + 1,
                         IF best = None \/ items[i][1] <= best[1][1]
                         THEN Some(items[i]) ELSE best)

\* Iterator::min_by_key on the first component, from item i on with the best
\* so far: of several minima the first is returned
RECURSIVE min_by_key(_, _, _)
min_by_key(items, i, best) ==
    IF i > Len(items) THEN best
    ELSE min_by_key(items, i + 1,
                    IF best = None \/ items[i][1] < best[1][1]
                    THEN Some(items[i]) ELSE best)

ClosestOf(candidate) ==
    IF candidate = None THEN None
    ELSE Some(<<candidate[1][2],
                [package |-> Some(candidate[1][3]), dependencies |-> <<>>]>>)

Distances(pkg_dirs, package_name) ==
    [i \in DOMAIN pkg_dirs |->
        <<levenshtein(pkg_dirs[i][2].name, package_name), pkg_dirs[i][1], pkg_dirs[i][2]>>]

\* find_closest_package: Option<(PathBuf, PackageAndDeps)>
find_closest_package(dir, package_name) ==
    ClosestOf(min_by_key(Distances(load_dirs_pkgs(dir), package_name), 1, None))

VecOfOpt(opt) == IF opt = None THEN <<>> ELSE <<opt[1]>>

\* fuzzy_search looking for the empty name when no name is given
fuzzy_search_always(dir, package_name) ==
    IF package_name # None
    THEN VecOfOpt(find_closest_package(dir, package_name[1]))
    ELSE VecOfOpt(find_closest_package(dir, <<>>))

\* Search::fuzzy_search
fuzzy_search(dir, package_name) ==
    IF package_name # None
    THEN VecOfOpt(find_closest_package(dir, package_name[1]))
    ELSE <<>>

\* the name filter stripping the quotes of the criterion as well
search_filter_package_and_deps_strip_both(pkg_and_deps, pkg_name) ==
    [package |->
        IF pkg_and_deps.package # None
              /\ strip_quotes(pkg_and_deps.package[1].name) # strip_quotes(pkg_name)
        THEN None ELSE pkg_and_deps.package,
     dependencies |->
        SelectSeq(pkg_and_deps.dependencies,
                  LAMBDA dep : strip_quotes(dep.name) = strip_quotes(pkg_name))]

\* filter_package_and_deps of search.rs
search_filter_package_and_deps(pkg_and_deps, pkg_name) ==
    [package |->
        IF pkg_and_deps.package # None
              /\ strip_quotes(pkg_and_deps.package[1].name) # pkg_name
        THEN None ELSE pkg_and_deps.package,
     dependencies |->
        SelectSeq(pkg_and_deps.dependencies,
                  LAMBDA dep : strip_quotes(dep.name) = pkg_name)]

NameFiltered(pkg_deps_dirs, pkg_name) ==
    [i \in DOMAIN pkg_deps_dirs |->
        <<pkg_deps_dirs[i][1],
          search_filter_package_and_deps(pkg_deps_dirs[i][2], pkg_name)>>]

\* Search::filter_by_package_name keeping the entries left empty
filter_by_package_name_keep_empty(pkg_deps_dirs, pkg_name) ==
    NameFiltered(pkg_deps_dirs, pkg_name)

\* Search::filter_by_package_name: the new value of self.pkg_deps_dirs
filter_by_package_name(pkg_deps_dirs, pkg_name) ==
    SelectSeq(NameFiltered(pkg_deps_dirs, pkg_name),
              LAMBDA e : e[2].package # None \/ e[2].dependencies # <<>>)

pkg_matches(pkg_and_deps, version) ==
    pkg_and_deps.package # None /\ pkg_and_deps.package[1].version = version

deps_matches(pkg_and_deps, version) ==
    \E i \in DOMAIN pkg_and_deps.dependencies :
        pkg_and_deps.dependencies[i].version = version

\* the filter_map closure of filter_by_version keeping the package whenever
\* the entry is kept
VersionFilteredEntry_keep_package(path, pkg_and_deps, version) ==
    IF ~(pkg_matches(pkg_and_deps, version) \/ deps_matches(pkg_and_deps, version))
    THEN None
    ELSE Some(<<path,
                [package |-> pkg_and_deps.package,
                 dependencies |->
                    SelectSeq(pkg_and_deps.dependencies,
                              LAMBDA dep : dep.version = version)]>>)

\* the filter_map closure of filter_by_version
VersionFilteredEntry(path, pkg_and_deps, version) ==
    IF ~(pkg_matches(pkg_and_deps, version) \/ deps_matches(pkg_and_deps, version))
    THEN None
    ELSE Some(<<path,
                [package |->
                    IF pkg_matches(pkg_and_deps, version)
                    THEN pkg_and_deps.package ELSE None,
                 dependencies |->
                    SelectSeq(pkg_and_deps.dependencies,
                              LAMBDA dep : dep.version = version)]>>)

\* filter_by_version of search.rs
filter_by_version(package_dirs, version) ==
    Flatten([i \in DOMAIN package_dirs |->
                VersionFilteredEntry(package_dirs[i][1], package_dirs[i][2], version)])

(***************************************************************************)
(* Increaser (increaser.rs).  A file of the directory has, besides its     *)
(* path and content, whether fs::read_to_string and fs::write succeed on   *)
(* it (readable, writable) and whether TomlParser::new succeeds on its     *)
(* content (parses).  A Result is [ok, value]: the value of Ok, or  *)
(* the path the error names.  An outcome of Increaser::new is              *)
(* [kind, reads, package_dirs]: kind "ok", "error" (an Err returned) or    *)
(* "exit" (std::process::exit(1)), and reads, the files read on the way.   *)
(***************************************************************************)
\* the literal next version of print_next_version_matches
ZeroVersion == <<"0.0.0">>

\* the index of the first file fs::read_to_string fails on, from i on; 0 if
\* there is none
RECURSIVE FirstUnreadable(_, _)
FirstUnreadable(dir, i) ==
    IF i > Len(dir) THEN 0
    ELSE IF ~dir[i].readable THEN i
    ELSE FirstUnreadable(dir, i + 1)

\* the files the lazy map of load_dirs_and_packages reads before collect
\* stops: all of them, or those up to the first failure
ReadsUpTo(dir, failed) ==
    [i \in 1..(IF failed = 0 THEN Len(dir) ELSE failed) |-> <<"read", dir[i].path>>]

\* the map reading every file whatever the earlier ones returned
ReadsOf_all(dir) == ReadsUpTo(dir, 0)

ReadsOf(dir) == ReadsUpTo(dir, FirstUnreadable(dir, 1))

FilteredOfFile(path, filtered) ==
    {IF r = None THEN None ELSE Some(<<path, r[1]>>) : r \in filtered}

\* the values the map over the files from i on can yield, all files readable
RECURSIVE LoadPackagesFrom(_, _, _)
LoadPackagesFrom(dir, version_update, i) ==
    IF i > Len(dir) THEN {<<>>}
    ELSE {<<h>> \o t :
            h \in FilteredOfFile(dir[i].path,
                     filtered_pkg_and_deps(version_update, dir[i].content, dir[i].parses)),
            t \in LoadPackagesFrom(dir, version_update, i + 1)}

OutsideTargetBuilds(entries) ==
    SelectSeq(entries,
              LAMBDA e : ~(path_contains(e[1], <<"target", "release">>)
                              \/ path_contains(e[1], <<"target", "debug">>)))

LoadResultOf(dir, version_update, failed) ==
    IF failed # 0 THEN {[ok |-> FALSE, value |-> dir[failed].path]}
    ELSE {[ok |-> TRUE, value |-> OutsideTargetBuilds(Flatten(l))] :
            l \in LoadPackagesFrom(dir, version_update, 1)}

\* load_dirs_and_packages of increaser.rs: the set of Results the call can
\* return
load_dirs_and_packages(dir, version_update) ==
    LoadResultOf(dir, version_update, FirstUnreadable(dir, 1))

\* package_dirs.iter().map(count).sum()
RECURSIVE total_count(_)
total_count(package_dirs) ==
    IF package_dirs = <<>> THEN 0
    ELSE count(Head(package_dirs)[2]) + total_count(Tail(package_dirs))

\* Increaser::new exiting as soon as one entry of the scan has no match
OutcomeOf_any_empty(loaded, reads) ==
    IF ~loaded.ok
    THEN [kind |-> "error", reads |-> reads, package_dirs |-> <<>>]
    ELSE IF total_count(loaded.value) = 0
              \/ \E i \in DOMAIN loaded.value : count(loaded.value[i][2]) = 0
    THEN [kind |-> "exit", reads |-> reads, package_dirs |-> <<>>]
    ELSE [kind |-> "ok", reads |-> reads, package_dirs |-> loaded.value]

OutcomeOf(loaded, reads) ==
    IF ~loaded.ok
    THEN [kind |-> "error", reads |-> reads, package_dirs |-> <<>>]
    ELSE IF total_count(loaded.value) = 0
    THEN [kind |-> "exit", reads |-> reads, package_dirs |-> <<>>]
    ELSE [kind |-> "ok", reads |-> reads, package_dirs |-> loaded.value]

VersionUpdate(package_name, current_version, new_version) ==
    [package_name |-> package_name, current_version |-> current_version,
     new_version |-> new_version]

\* Increaser::new comparing the versions after the scan
Increaser_new_scan_first(dir, current_version, next_version, package_name) ==
    {IF current_version = next_version
     THEN [kind |-> "exit", reads |-> ReadsOf(dir), package_dirs |-> <<>>]
     ELSE OutcomeOf(r, ReadsOf(dir)) :
        r \in load_dirs_and_packages(dir,
                 VersionUpdate(package_name, current_version, next_version))}

\* Increaser::new: the set of outcomes of the call
Increaser_new(dir, current_version, next_version, package_name) ==
    IF current_version = next_version
    THEN {[kind |-> "exit", reads |-> <<>>, package_dirs |-> <<>>]}
    ELSE {OutcomeOf(r, ReadsOf(dir)) :
            r \in load_dirs_and_packages(dir,
                     VersionUpdate(package_name, current_version, next_version))}

\* VersionMatch::new
VersionMatch_new(file_path, pkg_deps) ==
    [file_path |-> file_path, matches |-> count(pkg_deps), pkg_deps |-> pkg_deps]

VersionMatches(package_dirs) ==
    [i \in DOMAIN package_dirs |->
        VersionMatch_new(package_dirs[i][1], package_dirs[i][2])]

\* print_version_matches keeping the entries without a match
print_version_matches_keep_all(package_dirs) == VersionMatches(package_dirs)

\* Increaser::print_version_matches: the Vec<VersionMatch> printed and returned
print_version_matches(package_dirs) ==
    SelectSeq(VersionMatches(package_dirs), LAMBDA m : m.matches # 0)

\* the loop leaving after the first edit
LoopFrom_one_pass(version_update, updated_source, ok, passes) ==
    IF None \in passes THEN {updated_source}
    ELSE {r[1] : r \in passes}

\* the loop of update_all_pkg_and_deps from the result of one update_pass on
RECURSIVE LoopFrom(_, _, _, _)
LoopFrom(version_update, updated_source, ok, passes) ==
    IF None \in passes THEN {updated_source}
    ELSE UNION {LoopFrom(version_update, r[1], ok, update_pass(version_update, r[1], ok)) :
                    r \in passes}

\* update_all_pkg_and_deps editing whether the parser fails or not
update_all_pkg_and_deps_any_parse(version_update, content, ok) ==
    LoopFrom(version_update, content, TRUE, update_pass(version_update, content, TRUE))

\* VersionUpdate::update_all_pkg_and_deps: the set of sources the call can
\* return
update_all_pkg_and_deps(version_update, content, ok) ==
    LoopFrom(version_update, content, ok, update_pass(version_update, content, ok))

(***************************************************************************)
(* Manifests of the model: an optional [package] table and an optional     *)
(* [dependencies] table with up to MaxDeps entries, in either order.       *)
(***************************************************************************)
Header(k) == <<"[", k, "]", NL>>
StrPair(k, v) == <<k, "=">> \o quoted(v) \o <<NL>>
InlineDep(k, body) == <<k, "=", "{">> \o body \o <<"}", NL>>
InlineStr(k, v) == <<k, "=">> \o quoted(v)
PackageOf(n, v) ==
    Header("package") \o StrPair("name", n) \o StrPair("version", v)

NameLines == {<<>>, StrPair("name", <<"u">>)}
VersionLines ==
    {<<>>, StrPair("version", <<"1">>), StrPair("version", <<"2">>),
     <<"version", "=", "true", NL>>}
ExtraLines == {<<>>, StrPair("edition", <<"1">>)}

PackageTables ==
    {<<>>} \cup {Header("package") \o n \o v \o e :
                    n \in NameLines, v \in VersionLines, e \in ExtraLines}

DepLines ==
    {InlineDep("u", InlineStr("version", <<"1">>)),
     InlineDep("u", InlineStr("version", <<"2">>)),
     InlineDep("w", InlineStr("version", <<"1">>) \o <<",">> \o InlineStr("path", <<"1">>)),
     StrPair("u", <<"1">>)}

RECURSIVE DepBodies(_)
DepBodies(n) ==
    IF n = 0 THEN {<<>>}
    ELSE DepBodies(n - 1) \cup {b \o l : b \in DepBodies(n - 1), l \in DepLines}

DepTables == {<<>>} \cup {Header("dependencies") \o b : b \in DepBodies(MaxDeps)}

Manifests ==
    {p \o d : p \in PackageTables, d \in DepTables}
        \cup {d \o p : p \in PackageTables, d \in DepTables}

(***************************************************************************)
(* State.  The fixpoint driver update_all_pkg_and_deps: its arguments      *)
(* (source and the VersionUpdate fields), the loop variables               *)
(* updated_source and iteration, and pc, Scanning inside the loop and Done *)
(* after the break.  parse_ok: whether TomlParser::new succeeds.           *)
(***************************************************************************)
VARIABLES source, package_name, current_version, new_version, parse_ok,
          updated_source, iteration, pc

driver_args == <<source, package_name, current_version, new_version, parse_ok>>
driver_vars == <<driver_args, updated_source, iteration, pc>>

\* A call of one function on its own: the arguments and, once it has
\* returned, Some(result).
VARIABLES args, ret

call_vars == <<args, ret>>

\* run_search: the directory searched, the version criterion, what
\* load_dirs_pkgs_deps returned to Search::new (package_dirs), the Search
\* field pkg_deps_dirs, the local found_packages, and the position spc.
VARIABLES dir_path, version, package_dirs, pkg_deps_dirs, found_packages, spc

search_args == <<dir_path, version, package_dirs>>
search_vars == <<search_args, pkg_deps_dirs, found_packages, spc>>

\* run_incv: the position ipc, the index cursor of the file the edit pass is
\* at (0 before the pass), and log, what the run has done to the file system
\* and printed so far: <<"read", path>>, <<"write", path>>,
\* <<"summary", version_matches>>, <<"error", path>>, <<"exit">>.  The
\* directory is dir_path, the Increaser field package_dirs is package_dirs.
VARIABLES ipc, cursor, log

\* run_incv's confirmation: args.yes, config.always_ask_permission and what
\* ask_to_continue has read at its prompts; results is the Vec that
\* update_dirs_and_packages builds and returns.
VARIABLES args_yes, config_always_ask_permission, answers, results

confirm_vars == <<args_yes, config_always_ask_permission, answers>>

incv_vars == <<ipc, cursor, log, results, confirm_vars>>

\* publish_modules: the input dirs, the module each one needs published
\* before cargo publish accepts it (requires: 0 for none, its own index for
\* a module that can never be published), and the locals of the function
VARIABLES dirs, requires, publish_states, outer_iter, idx, progress, ppc

\* the publish commands executed so far, <<dir, whether it returned Ok>>
VARIABLES commands

publish_args == <<dirs, requires>>
publish_vars == <<publish_args, publish_states, outer_iter, idx, progress, ppc, commands>>

vars == <<driver_vars, call_vars, search_vars, incv_vars, publish_vars>>

ConfirmIdle ==
    args_yes = FALSE /\ config_always_ask_permission = FALSE /\ answers = <<>>

IncvIdle == ipc = "Idle" /\ cursor = 0 /\ log = <<>> /\ results = <<>> /\ ConfirmIdle

PublishIdle ==
    /\ dirs = <<>> /\ requires = <<>> /\ publish_states = <<>>
    /\ outer_iter = 0 /\ idx = 0 /\ progress = FALSE /\ ppc = "Idle"
    /\ commands = <<>>

\* the loop of update_all_pkg_and_deps is not entered
LoopIdle ==
    /\ source = <<>> /\ parse_ok = TRUE /\ updated_source = <<>>
    /\ iteration = 0 /\ pc = "Idle"

SearchIdle ==
    /\ dir_path = <<>> /\ version = None /\ package_dirs = <<>>
    /\ pkg_deps_dirs = <<>> /\ found_packages = <<>> /\ spc = "Idle"

\* the driver is not entered (package_name is the command line's, set by
\* each specification); no function is called on its own
DriverIdle ==
    /\ source = <<>>
    /\ current_version = <<>> /\ new_version = <<>>
    /\ parse_ok = TRUE /\ updated_source = <<>>
    /\ iteration = 0 /\ pc = "Idle"

CallIdle == args = None /\ ret = None

Self ==
    [package_name |-> package_name, current_version |-> current_version,
     new_version |-> new_version]

\* Increaser::new exits when the two versions are equal, so the driver is
\* entered with different ones
DriverInit ==
    /\ source \in Manifests
    /\ package_name \in {None} \cup {Some(n) : n \in {<<"u">>, <<"w">>}}
    /\ current_version \in {<<"1">>, <<"2">>}
    /\ new_version \in {<<"2">>, <<"1", "0">>}
    /\ new_version # current_version
    /\ parse_ok = TRUE
    /\ updated_source = source
    /\ iteration = 1
    /\ pc = "Scanning"

Init == DriverInit /\ CallIdle /\ SearchIdle /\ IncvIdle /\ PublishIdle

\* one turn of the loop where update_pass returned Some(new_source)
Iterate ==
    /\ pc = "Scanning"
    /\ iteration <= MaxIteration
    /\ \E r \in update_pass(Self, updated_source, parse_ok) :
          /\ r # None
          /\ updated_source' = r[1]
    /\ iteration' = iteration + 1
    /\ UNCHANGED <<incv_vars, publish_vars, driver_args, pc, call_vars, search_vars>>

\* the turn of the loop where update_pass returned None: break
Break ==
    /\ pc = "Scanning"
    /\ iteration <= MaxIteration
    /\ None \in update_pass(Self, updated_source, parse_ok)
    /\ iteration' = iteration + 1
    /\ pc' = "Done"
    /\ UNCHANGED <<incv_vars, publish_vars, driver_args, updated_source, call_vars, search_vars>>

Next == Iterate \/ Break

Spec == Init /\ [][Next]_vars

\* The driver with a parser that can fail: from the first pass on, or from
\* any later pass on.
InitParseFailure ==
    /\ CallIdle /\ SearchIdle /\ IncvIdle /\ PublishIdle
    /\ source \in Manifests
    /\ package_name \in {None, Some(<<"u">>)}
    /\ current_version = <<"1">>
    /\ new_version \in {<<"2">>, <<"1", "0">>}
    /\ parse_ok \in BOOLEAN
    /\ updated_source = source
    /\ iteration = 1
    /\ pc = "Scanning"

\* the parser: TomlParser::new returns Err from now on
ParserBreaks ==
    /\ pc = "Scanning" /\ parse_ok
    /\ parse_ok' = FALSE
    /\ UNCHANGED <<incv_vars, publish_vars, source, package_name, current_version,
                   new_version, updated_source, iteration, pc, call_vars, search_vars>>

NextParseFailure == Iterate \/ Break \/ ParserBreaks

SpecParseFailure == InitParseFailure /\ [][NextParseFailure]_vars

(***************************************************************************)
(* edit_node on its own: any node of the tree of a manifest, any           *)
(* replacement text.                                                       *)
(***************************************************************************)
RECURSIVE NodesOf(_)
NodesOf(node) ==
    {node} \cup UNION {NodesOf(node.children[i]) : i \in DOMAIN node.children}

EditSources == {p \o d : p \in PackageTables, d \in DepTables}

NewValues == {<<>>, quoted(<<"2">>), quoted(<<"1", "0">>)}

InitEditNode ==
    /\ IncvIdle /\ PublishIdle
    /\ DriverIdle /\ package_name = None /\ SearchIdle
    /\ ret = None
    /\ \E s \in EditSources, v \in NewValues :
          \E n \in NodesOf(ParseDocument(s)) :
             args = [source |-> s, node |-> n, new_value |-> v]

CallEditNode ==
    /\ ret = None
    /\ ret' = Some(edit_node(args.source, args.node, args.new_value))
    /\ UNCHANGED <<incv_vars, publish_vars, driver_vars, args, search_vars>>

NextEditNode == CallEditNode

SpecEditNode == InitEditNode /\ [][NextEditNode]_vars

(***************************************************************************)
(* extract_pkg_info on its own: the [package] table of a manifest whose    *)
(* name and version are absent, a string, or another kind of value, with   *)
(* or without other keys around them.                                      *)
(***************************************************************************)
ScalarPair(k, v) == <<k, "=", v, NL>>
ArrayPair(k, items) == <<k, "=", "[">> \o items \o <<"]", NL>>

PkgNameLines ==
    NameLines \cup {ScalarPair("name", "7"), ArrayPair("name", quoted(<<"u">>))}

PkgVersionLines ==
    VersionLines \cup
        {ArrayPair("version", quoted(<<"1">>)),
         ArrayPair("version", <<"7">>),
         InlineDep("version", <<"workspace", "=", "true">>),
         InlineDep("version", InlineStr("x", <<"1">>))}

PkgExtraLines ==
    ExtraLines \cup {InlineDep("k", InlineStr("name", <<"w">>))}

PkgTables ==
    {Header("package") \o n \o v \o e :
        n \in PkgNameLines, v \in PkgVersionLines, e \in PkgExtraLines}
    \cup {Header("package") \o e \o v \o n :
        n \in PkgNameLines, v \in PkgVersionLines, e \in PkgExtraLines}

InitExtractPkgInfo ==
    /\ IncvIdle /\ PublishIdle
    /\ DriverIdle /\ package_name = None /\ SearchIdle
    /\ ret = None
    /\ \E s \in PkgTables :
          args = [source |-> s, table_node |-> ParseDocument(s).children[1]]

CallExtractPkgInfo ==
    /\ ret = None
    /\ ret' = Some(extract_pkg_info(args.source, args.table_node))
    /\ UNCHANGED <<incv_vars, publish_vars, driver_vars, args, search_vars>>

NextExtractPkgInfo == CallExtractPkgInfo

SpecExtractPkgInfo == InitExtractPkgInfo /\ [][NextExtractPkgInfo]_vars

(***************************************************************************)
(* extract_deps_info on its own: a [dependencies] table of at most MaxDeps *)
(* pairs, their values inline tables with or without a version, strings,   *)
(* or versions that are not strings.                                       *)
(***************************************************************************)
DepsLines ==
    DepLines \cup
        {InlineDep("w", InlineStr("path", <<"1">>)),
         InlineDep("w", <<"version", "=">> \o <<"[">> \o quoted(<<"1">>) \o <<"]">>),
         InlineDep("u", <<"version", "=", "7">>),
         ArrayPair("w", <<"{">> \o InlineStr("version", <<"2">>) \o <<"}">>)}

RECURSIVE DepsBodies(_)
DepsBodies(n) ==
    IF n = 0 THEN {<<>>}
    ELSE DepsBodies(n - 1) \cup {b \o l : b \in DepsBodies(n - 1), l \in DepsLines}

InitExtractDepsInfo ==
    /\ IncvIdle /\ PublishIdle
    /\ DriverIdle /\ package_name = None /\ SearchIdle
    /\ ret = None
    /\ \E b \in DepsBodies(MaxDeps) :
          args = [source |-> Header("dependencies") \o b,
                  table_node |-> ParseDocument(Header("dependencies") \o b).children[1]]

CallExtractDepsInfo ==
    /\ ret = None
    /\ ret' = Some(extract_deps_info(args.source, args.table_node))
    /\ UNCHANGED <<incv_vars, publish_vars, driver_vars, args, search_vars>>

NextExtractDepsInfo == CallExtractDepsInfo

SpecExtractDepsInfo == InitExtractDepsInfo /\ [][NextExtractDepsInfo]_vars

(***************************************************************************)
(* find_package_and_deps and then find_package on the same document: up to *)
(* MaxTables tables, package tables with or without a version and          *)
(* dependencies tables, in any order.                                      *)
(***************************************************************************)
MaxTables == 3

TablesTried ==
    {PackageOf(<<"u">>, <<"1">>),
     PackageOf(<<"w">>, <<"2">>),
     Header("package") \o StrPair("name", <<"w">>),
     Header("dependencies") \o InlineDep("u", InlineStr("version", <<"1">>)),
     Header("dependencies") \o InlineDep("w", InlineStr("version", <<"2">>))
        \o StrPair("u", <<"1">>)}

RECURSIVE Documents(_)
Documents(n) ==
    IF n = 0 THEN {<<>>}
    ELSE Documents(n - 1) \cup {d \o t : d \in Documents(n - 1), t \in TablesTried}

InitFindPackage ==
    /\ IncvIdle /\ PublishIdle
    /\ DriverIdle /\ package_name = None /\ SearchIdle
    /\ ret = <<>>
    /\ \E s \in Documents(MaxTables) : args = [source |-> s]

CallFindPackageAndDeps ==
    /\ Len(ret) = 0
    /\ ret' = <<find_package_and_deps(TomlParser_new(args.source, TRUE)[1])>>
    /\ UNCHANGED <<incv_vars, publish_vars, driver_vars, args, search_vars>>

CallFindPackage ==
    /\ Len(ret) = 1
    /\ ret' = Append(ret, find_package(TomlParser_new(args.source, TRUE)[1]))
    /\ UNCHANGED <<incv_vars, publish_vars, driver_vars, args, search_vars>>

NextFindPackage == CallFindPackageAndDeps \/ CallFindPackage

SpecFindPackage == InitFindPackage /\ [][NextFindPackage]_vars

(***************************************************************************)
(* The extraction of one file, find_package_and_deps and the conversion    *)
(* into a PackageAndDeps, made twice on the same source.                   *)
(***************************************************************************)
InitExtractTwice ==
    /\ IncvIdle /\ PublishIdle
    /\ DriverIdle /\ package_name = None /\ SearchIdle
    /\ ret = <<>>
    /\ \E s \in Manifests : args = [path |-> <<"a">>, content |-> s]

\* one more extraction of the source, each with a hash map of its own
CallExtract ==
    /\ Len(ret) < 2
    /\ \E r \in LoadFile(args) : ret' = Append(ret, r)
    /\ UNCHANGED <<incv_vars, publish_vars, driver_vars, args, search_vars>>

NextExtractTwice == CallExtract

SpecExtractTwice == InitExtractTwice /\ [][NextExtractTwice]_vars

(***************************************************************************)
(* run_search (main.rs): Search::new, the two stages of Search::search,    *)
(* then fuzzy_search when nothing was found, display otherwise.            *)
(***************************************************************************)
MaxFiles == 2

SearchManifests ==
    {PackageOf(<<"u">>, <<"1">>) \o Header("dependencies")
        \o InlineDep("w", InlineStr("version", <<"1">>))
        \o InlineDep("u", InlineStr("version", <<"2">>)),
     PackageOf(<<"w">>, <<"2">>),
     Header("dependencies") \o InlineDep("u", InlineStr("version", <<"1">>)),
     PackageOf(<<"u", "w">>, <<"1">>) \o Header("dependencies")
        \o InlineDep("w", InlineStr("version", <<"2">>))}

SearchPaths == {<<"a">>, <<"b">>, <<"target", "x">>, <<"target", "debug">>}

\* the files of a directory searched: readable, whether fs::read_to_string
\* succeeds on the file, and parses, whether TomlParser::new does
Files ==
    {[path |-> p, content |-> c, readable |-> TRUE, parses |-> TRUE] :
        p \in SearchPaths, c \in SearchManifests}
    \cup {[path |-> p, content |-> PackageOf(<<"u">>, <<"1">>),
           readable |-> r, parses |-> ~r] : p \in SearchPaths, r \in BOOLEAN}

\* the directories of at most n files, no path twice
RECURSIVE Dirs(_)
Dirs(n) ==
    IF n = 0 THEN {<<>>}
    ELSE Dirs(n - 1) \cup
         {Append(d, f) : d \in {e \in Dirs(n - 1) : Len(e) = n - 1}, f \in Files}

DistinctPaths(dir) ==
    \A i, j \in DOMAIN dir : dir[i].path = dir[j].path => i = j

\* the index of the first file the map closure of load_dirs_pkgs_deps
\* returns an Err on, from i on; 0 if there is none
RECURSIVE FirstFailed(_, _)
FirstFailed(dir, i) ==
    IF i > Len(dir) THEN 0
    ELSE IF ~dir[i].readable \/ ~dir[i].parses THEN i
    ELSE FirstFailed(dir, i + 1)

\* Search::new: the Err of load_dirs_pkgs_deps when a file cannot be read or
\* parsed, or Ok with the entries loaded
Search_new(dir) ==
    IF FirstFailed(dir, 1) # 0 THEN {[ok |-> FALSE, value |-> <<>>]}
    ELSE {[ok |-> TRUE, value |-> l] : l \in load_dirs_pkgs_deps(dir)}

InitSearch ==
    /\ IncvIdle /\ PublishIdle
    /\ DriverIdle /\ CallIdle
    /\ dir_path \in {d \in Dirs(MaxFiles) : DistinctPaths(d)}
    /\ version \in {None, Some(<<"1">>), Some(<<"2">>)}
    /\ package_name \in
          {None, Some(<<"u">>), Some(<<"w">>), Some(<<Q, "u", Q>>)}
    /\ \E r \in Search_new(dir_path) :
          /\ package_dirs = r.value
          /\ spc = (IF r.ok THEN "search" ELSE "error")
    /\ pkg_deps_dirs = package_dirs
    /\ found_packages = <<>>

\* Search::search, first stage
FilterByVersion ==
    /\ spc = "search"
    /\ pkg_deps_dirs' =
          IF version # None THEN filter_by_version(pkg_deps_dirs, version[1])
          ELSE pkg_deps_dirs
    /\ spc' = "name"
    /\ UNCHANGED <<incv_vars, publish_vars, driver_vars, call_vars, search_args, found_packages>>

\* Search::search, second stage; run_search then clones the field
FilterByPackageName ==
    /\ spc = "name"
    /\ pkg_deps_dirs' =
          IF package_name # None
          THEN filter_by_package_name(pkg_deps_dirs, package_name[1])
          ELSE pkg_deps_dirs
    /\ found_packages' = pkg_deps_dirs'
    /\ spc' = "searched"
    /\ UNCHANGED <<incv_vars, publish_vars, driver_vars, call_vars, search_args>>

\* run_search: found_packages.is_empty(), the fallback
FuzzySearch ==
    /\ spc = "searched"
    /\ found_packages = <<>>
    /\ found_packages' = fuzzy_search(dir_path, package_name)
    /\ spc' = "fuzzy"
    /\ UNCHANGED <<incv_vars, publish_vars, driver_vars, call_vars, search_args, pkg_deps_dirs>>

\* run_search: search_instance.display
Display ==
    /\ spc = "searched"
    /\ found_packages # <<>>
    /\ spc' = "displayed"
    /\ UNCHANGED <<incv_vars, publish_vars, driver_vars, call_vars, search_args, pkg_deps_dirs, found_packages>>

NextSearch == FilterByVersion \/ FilterByPackageName \/ FuzzySearch \/ Display

SpecSearch == InitSearch /\ [][NextSearch]_vars

(***************************************************************************)
(* run_incv (main.rs) on a directory of at most MaxFiles Cargo.toml files, *)
(* some under target, some that cannot be read or written.                 *)
(***************************************************************************)
IncvManifests ==
    {PackageOf(<<"u">>, <<"1">>) \o Header("dependencies")
        \o InlineDep("w", InlineStr("version", <<"1">>)),
     PackageOf(<<"w">>, <<"2">>),
     Header("dependencies") \o InlineDep("u", InlineStr("version", <<"1">>))}

IncvPaths == {<<"a">>, <<"target", "x">>, <<"target", "debug">>}

IncvFiles ==
    {[path |-> p, content |-> c, readable |-> TRUE, writable |-> w, parses |-> TRUE] :
        p \in IncvPaths, c \in IncvManifests, w \in BOOLEAN}
    \cup {[path |-> p, content |-> PackageOf(<<"u">>, <<"1">>),
           readable |-> r, writable |-> TRUE, parses |-> ~r] :
            p \in IncvPaths, r \in BOOLEAN}

RECURSIVE IncvDirs(_)
IncvDirs(n) ==
    IF n = 0 THEN {<<>>}
    ELSE IncvDirs(n - 1) \cup
         {Append(d, f) : d \in {e \in IncvDirs(n - 1) : Len(e) = n - 1}, f \in IncvFiles}

InitIncv ==
    /\ LoopIdle /\ CallIdle /\ PublishIdle
    /\ dir_path \in {d \in IncvDirs(MaxFiles) : DistinctPaths(d)}
    /\ package_name \in {None, Some(<<"u">>)}
    /\ current_version \in {<<"1">>, <<"2">>}
    /\ new_version \in {<<"1">>, <<"2">>, ZeroVersion}
    /\ version = None /\ package_dirs = <<>>
    /\ pkg_deps_dirs = <<>> /\ found_packages = <<>> /\ spc = "Idle"
    /\ ipc = "new" /\ cursor = 0 /\ log = <<>> /\ results = <<>> /\ ConfirmIdle

EndOf(kind) == IF kind = "ok" THEN <<>> ELSE <<<<kind>>>>

\* let increaser = Increaser::new(...)?
NewIncreaser ==
    /\ ipc = "new"
    /\ \E o \in Increaser_new(dir_path, current_version, new_version, package_name) :
          /\ package_dirs' = o.package_dirs
          /\ ipc' = (IF o.kind = "ok" THEN "loaded" ELSE o.kind)
          /\ log' = log \o o.reads \o EndOf(o.kind)
    /\ UNCHANGED <<publish_vars, driver_vars, call_vars, results, confirm_vars,
                   dir_path, version,
                   pkg_deps_dirs, found_packages, spc, cursor>>

\* increaser.print_current_version_matches()?
PrintCurrentVersionMatches ==
    /\ ipc = "loaded"
    /\ log' = Append(log, <<"summary", print_version_matches(package_dirs)>>)
    /\ ipc' = "confirm"
    /\ UNCHANGED <<publish_vars, driver_vars, call_vars, results, confirm_vars,
                   search_vars, cursor>>

\* the confirmation is skipped, not asked for, or given
Continue ==
    /\ ipc = "confirm"
    /\ \E yes, always_ask_permission, continue_execution \in BOOLEAN :
          yes \/ ~always_ask_permission \/ continue_execution
    /\ ipc' = "update"
    /\ cursor' = 1
    /\ results' = <<>>
    /\ UNCHANGED <<publish_vars, driver_vars, call_vars, confirm_vars,
                   search_vars, log>>

\* ask_to_continue: the user declines, process::exit(1)
Interrupt ==
    /\ ipc = "confirm"
    /\ \E yes, always_ask_permission, continue_execution \in BOOLEAN :
          ~yes /\ always_ask_permission /\ ~continue_execution
    /\ ipc' = "exit"
    /\ log' = Append(log, <<"exit">>)
    /\ UNCHANGED <<publish_vars, driver_vars, call_vars, results, confirm_vars,
                   search_vars, cursor>>

\* the file system while the run waits for the confirmation: a file the scan
\* has read becomes unreadable
ReadRevoked ==
    /\ ipc = "confirm"
    /\ \E i \in DOMAIN dir_path :
          /\ dir_path[i].readable
          /\ dir_path' = [dir_path EXCEPT ![i].readable = FALSE]
    /\ UNCHANGED <<publish_vars, driver_vars, call_vars, version, package_dirs,
                   pkg_deps_dirs, found_packages, spc, incv_vars>>

\* update_dirs_and_packages at a file fs::read_to_string fails on
EditReadFails ==
    /\ ipc = "update" /\ cursor <= Len(dir_path)
    /\ ~dir_path[cursor].readable
    /\ log' = log \o <<<<"read", dir_path[cursor].path>>, <<"error">>>>
    /\ ipc' = "error"
    /\ UNCHANGED <<publish_vars, driver_vars, call_vars, results, confirm_vars,
                   search_vars, cursor>>

\* update_dirs_and_packages at a file fs::write fails on
EditWriteFails ==
    /\ ipc = "update" /\ cursor <= Len(dir_path)
    /\ dir_path[cursor].readable /\ ~dir_path[cursor].writable
    /\ log' = log \o <<<<"read", dir_path[cursor].path>>, <<"error">>>>
    /\ ipc' = "error"
    /\ UNCHANGED <<publish_vars, driver_vars, call_vars, results, confirm_vars,
                   search_vars, cursor>>

\* update_dirs_and_packages at a file: read, update_all_pkg_and_deps, write
EditFile ==
    /\ ipc = "update" /\ cursor <= Len(dir_path)
    /\ dir_path[cursor].readable /\ dir_path[cursor].writable
    /\ \E updated \in update_all_pkg_and_deps(Self, dir_path[cursor].content,
                                                dir_path[cursor].parses) :
          dir_path' = [dir_path EXCEPT ![cursor].content = updated]
    /\ log' = log \o <<<<"read", dir_path[cursor].path>>,
                       <<"write", dir_path[cursor].path>>>>
    /\ cursor' = cursor + 1
    /\ UNCHANGED <<publish_vars, driver_vars, call_vars, results, confirm_vars,
                   version, package_dirs,
                   pkg_deps_dirs, found_packages, spc, ipc>>

\* the edit pass returned Ok: increaser.print_next_version_matches()?
PrintNextVersionMatches ==
    /\ ipc = "update" /\ cursor > Len(dir_path)
    /\ \E o \in Increaser_new(dir_path, new_version, ZeroVersion, package_name) :
          /\ ipc' = (IF o.kind = "ok" THEN "done" ELSE o.kind)
          /\ log' = log \o o.reads \o
                (IF o.kind = "ok"
                 THEN <<<<"summary", print_version_matches(o.package_dirs)>>>>
                 ELSE EndOf(o.kind))
    /\ UNCHANGED <<publish_vars, driver_vars, call_vars, results, confirm_vars,
                   search_vars, cursor>>

NextIncv ==
    \/ NewIncreaser \/ PrintCurrentVersionMatches \/ ReadRevoked
    \/ Continue \/ Interrupt
    \/ EditReadFails \/ EditWriteFails \/ EditFile \/ PrintNextVersionMatches

SpecIncv == InitIncv /\ [][NextIncv]_vars

\* run_incv with its confirmation: args.yes and config.always_ask_permission
\* are inputs of the run, on files every operation succeeds on
ConfirmDirs ==
    {d \in IncvDirs(MaxFiles) :
        /\ DistinctPaths(d)
        /\ \A i \in DOMAIN d : d[i].readable /\ d[i].writable /\ d[i].parses}

InitConfirm ==
    /\ LoopIdle /\ CallIdle /\ PublishIdle
    /\ dir_path \in ConfirmDirs
    /\ package_name \in {None, Some(<<"u">>)}
    /\ current_version \in {<<"1">>, <<"2">>}
    /\ new_version \in {<<"1">>, <<"2">>}
    /\ version = None /\ package_dirs = <<>>
    /\ pkg_deps_dirs = <<>> /\ found_packages = <<>> /\ spc = "Idle"
    /\ ipc = "new" /\ cursor = 0 /\ log = <<>> /\ results = <<>>
    /\ args_yes \in BOOLEAN /\ config_always_ask_permission \in BOOLEAN
    /\ answers = <<>>

\* ask_to_continue with Enter taken as a yes
ask_to_continue_default_yes(answer) ==
    IF answer \in {"yes", "default"} THEN "update"
    ELSE IF answer = "no" THEN "exit"
    ELSE "panic"

\* ask_to_continue on what interact() reads: yes, no, Enter alone (the default,
\* false), or an Err that unwrap() panics on; the position the run goes to
ask_to_continue(answer) ==
    IF answer = "yes" THEN "update"
    ELSE IF answer \in {"no", "default"} THEN "exit"
    ELSE "panic"

\* if args.yes {} ... else {}: no confirmation is asked for
SkipConfirmation ==
    /\ ipc = "confirm"
    /\ args_yes \/ ~config_always_ask_permission
    /\ ipc' = "update"
    /\ cursor' = 1
    /\ results' = <<>>
    /\ UNCHANGED <<publish_vars, driver_vars, call_vars, confirm_vars,
                   search_vars, log>>

\* else if config.always_ask_permission { ask_to_continue(); }
AskToContinue ==
    /\ ipc = "confirm"
    /\ ~args_yes /\ config_always_ask_permission
    /\ \E answer \in {"yes", "no", "default", "unreadable"} :
          /\ answers' = Append(answers, answer)
          /\ ipc' = ask_to_continue(answer)
          /\ cursor' = (IF ask_to_continue(answer) = "update" THEN 1 ELSE cursor)
          /\ log' = (IF ask_to_continue(answer) = "exit"
                     THEN Append(log, <<"exit">>) ELSE log)
          /\ results' = (IF ask_to_continue(answer) = "update" THEN <<>> ELSE results)
    /\ UNCHANGED <<publish_vars, driver_vars, call_vars, search_vars,
                   args_yes, config_always_ask_permission>>

NextConfirm ==
    \/ NewIncreaser \/ PrintCurrentVersionMatches
    \/ SkipConfirmation \/ AskToContinue
    \/ EditFile \/ PrintNextVersionMatches

SpecConfirm == InitConfirm /\ [][NextConfirm]_vars

\* the two directory operations, run_search and run_incv
InitScans == InitSearch \/ InitIncv

NextScans == NextSearch \/ NextIncv

SpecScans == InitScans /\ [][NextScans]_vars

(***************************************************************************)
(* publish_modules (publish.rs) on at most MaxModules directories.  cargo  *)
(* publish accepts a module once the module it requires is published.     *)
(***************************************************************************)
MaxModules == 3

\* publish_module(&dir, "publish") returning Ok
publish_module(module, needed, states) ==
    IF needed[module] = 0 THEN TRUE
    ELSE needed[module] # module /\ states[needed[module]] = "Published"

InitPublish ==
    /\ IncvIdle /\ DriverIdle /\ package_name = None /\ CallIdle /\ SearchIdle
    /\ \E n \in 0..MaxModules :
          /\ dirs = [i \in 1..n |-> <<"m", i>>]
          /\ requires \in [1..n -> 0..n]
          /\ publish_states = [i \in 1..n |-> "Unpublished"]
    /\ outer_iter = 0 /\ idx = 0 /\ progress = FALSE
    /\ ppc = "outer" /\ commands = <<>>

\* for outer_iter in 0..publish_states.len(): one more sweep
StartSweep ==
    /\ ppc = "outer" /\ outer_iter < Len(publish_states)
    /\ progress' = FALSE
    /\ idx' = 0
    /\ ppc' = "inner"
    /\ UNCHANGED <<incv_vars, driver_vars, call_vars, search_vars,
                   publish_args, commands, publish_states, outer_iter>>

\* the inner loop at an Unpublished module whose publish_module returns Ok
Publish ==
    /\ ppc = "inner" /\ idx < Len(publish_states)
    /\ publish_states[idx + 1] = "Unpublished"
    /\ publish_module(idx + 1, requires, publish_states)
    /\ commands' = Append(commands, <<dirs[idx + 1], TRUE>>)
    /\ publish_states' = [publish_states EXCEPT ![idx + 1] = "Published"]
    /\ progress' = TRUE
    /\ idx' = idx + 1
    /\ UNCHANGED <<incv_vars, driver_vars, call_vars, search_vars,
                   publish_args, outer_iter, ppc>>

\* the inner loop at an Unpublished module whose publish_module returns Err
PublishFails ==
    /\ ppc = "inner" /\ idx < Len(publish_states)
    /\ publish_states[idx + 1] = "Unpublished"
    /\ ~publish_module(idx + 1, requires, publish_states)
    /\ commands' = Append(commands, <<dirs[idx + 1], FALSE>>)
    /\ idx' = idx + 1
    /\ UNCHANGED <<incv_vars, driver_vars, call_vars, search_vars,
                   publish_args, publish_states, outer_iter, progress, ppc>>

\* the inner loop publishing a Published module once more
AlreadyPublished_again ==
    /\ ppc = "inner" /\ idx < Len(publish_states)
    /\ publish_states[idx + 1] = "Published"
    /\ commands' = Append(commands, <<dirs[idx + 1], TRUE>>)
    /\ idx' = idx + 1
    /\ UNCHANGED <<incv_vars, driver_vars, call_vars, search_vars,
                   publish_args, publish_states, outer_iter, progress, ppc>>

\* the inner loop at a Published module
AlreadyPublished ==
    /\ ppc = "inner" /\ idx < Len(publish_states)
    /\ publish_states[idx + 1] = "Published"
    /\ idx' = idx + 1
    /\ UNCHANGED <<incv_vars, driver_vars, call_vars, search_vars,
                   publish_args, commands, publish_states, outer_iter, progress, ppc>>

\* the end of a sweep breaking whether it made progress or not
SweepBreak_always ==
    /\ ppc = "inner" /\ idx = Len(publish_states)
    /\ ppc' = "returned"
    /\ UNCHANGED <<incv_vars, driver_vars, call_vars, search_vars,
                   publish_args, commands, publish_states, outer_iter, idx, progress>>

\* if !progress { break }
SweepBreak ==
    /\ ppc = "inner" /\ idx = Len(publish_states)
    /\ ~progress
    /\ ppc' = "returned"
    /\ UNCHANGED <<incv_vars, driver_vars, call_vars, search_vars,
                   publish_args, commands, publish_states, outer_iter, idx, progress>>

\* the end of a sweep that made progress
SweepContinue ==
    /\ ppc = "inner" /\ idx = Len(publish_states)
    /\ progress
    /\ outer_iter' = outer_iter + 1
    /\ ppc' = "outer"
    /\ UNCHANGED <<incv_vars, driver_vars, call_vars, search_vars,
                   publish_args, commands, publish_states, idx, progress>>

\* the outer loop is exhausted: Ok(publish_states)
Return ==
    /\ ppc = "outer" /\ outer_iter >= Len(publish_states)
    /\ ppc' = "returned"
    /\ UNCHANGED <<incv_vars, driver_vars, call_vars, search_vars,
                   publish_args, commands, publish_states, outer_iter, idx, progress>>

NextPublish ==
    \/ StartSweep \/ Publish \/ PublishFails \/ AlreadyPublished
    \/ SweepBreak \/ SweepContinue \/ Return

SpecPublish == InitPublish /\ [][NextPublish]_vars

(***************************************************************************)
(* Declarations of a source, for the statements about the edit engine.     *)
(***************************************************************************)
\* the <<node, info>> entries of a set, by the position of their nodes
RECURSIVE InSourceOrder(_)

LeastFirst(S, m) == <<m>> \o InSourceOrder(S \ {m})

InSourceOrder(S) ==
    IF S = {} THEN <<>>
    ELSE LeastFirst(S, CHOOSE x \in S : \A y \in S : x[1].start <= y[1].start)

NameVersion(info) == [name |-> info.name, version |-> info.version]

DeclaredOf(pkg, deps) ==
    (IF pkg = None THEN <<>> ELSE <<NameVersion(pkg[1])>>)
        \o [i \in DOMAIN deps |-> NameVersion(deps[i][2])]

DeclaredBy(parser) ==
    DeclaredOf(find_package(parser), InSourceOrder(DepsOfOpt(find_deps_only(parser))))

\* the declarations the extractor finds in a source on its own account: the
\* package identity (find_package) and the dependency identities
\* (find_deps_only), as [name, version], the dependencies in source order
Declared(src) == DeclaredBy(TomlParser_new(src, TRUE)[1])

ExtractedOf(found) ==
    IF found = None THEN <<>>
    ELSE InSourceOrder({found[1].package[1]} \cup found[1].dependencies)

\* the entries of the record find_package_and_deps extracts, in source order;
\* none when it extracts no record
Extracted(src) == ExtractedOf(find_package_and_deps(TomlParser_new(src, TRUE)[1]))

HasPackageIdentity(src) == find_package_and_deps(TomlParser_new(src, TRUE)[1]) # None

CountKept(kept) ==
    (IF kept.package # None THEN 1 ELSE 0) + Cardinality(kept.dependencies)

MatchCountOf(found) ==
    IF found = None THEN 0 ELSE CountKept(filter_package_and_deps(Self, found[1]))

\* the number of entries of a source the edit filter keeps
MatchCount(src) == MatchCountOf(find_package_and_deps(TomlParser_new(src, TRUE)[1]))

AtVersion(decls, v) == {i \in DOMAIN decls : decls[i].version = v}

\* every declaration that was at the current version is at the new one, and
\* none is left at the current version
AllMoved(before, after) ==
    /\ Len(after) = Len(before)
    /\ AtVersion(after, current_version) = {}
    /\ \A i \in AtVersion(before, current_version) : after[i].version = new_version

OthersKept(before, after) ==
    \A i \in DOMAIN before : before[i].version # current_version => after[i] = before[i]

\* C1 as stated: for every manifest source, with no package-name filter, the
\* driver returns a source in which no declaration is left at the current
\* version and the N declarations that were at it are at the new version.
C1_AsStated ==
    (pc = "Done" /\ package_name = None)
        => AllMoved(Declared(source), Declared(updated_source))

C1_Moved(before, after) == AllMoved(before, after) /\ OthersKept(before, after)

\* C1 amended: the same, for every manifest source from which
\* find_package_and_deps extracts a record (a package identity is present);
\* the other declarations keep their versions.
C1_Completeness ==
    (pc = "Done" /\ package_name = None /\ HasPackageIdentity(source))
        => C1_Moved(Declared(source), Declared(updated_source))

C1_WitnessOn(before) ==
    /\ Cardinality(AtVersion(before, current_version)) >= 2
    /\ 1 \in AtVersion(before, current_version)

\* the package and one dependency were at the current version and both were
\* rewritten, by a literal of another length
C1_Witness ==
    /\ pc = "Done" /\ package_name = None /\ HasPackageIdentity(source)
    /\ Len(new_version) # Len(current_version)
    /\ Len(updated_source) > Len(source)
    /\ C1_WitnessOn(Declared(source))

\* edits applied so far: the turns of the loop that returned Some
EditsApplied == IF pc = "Done" THEN iteration - 2 ELSE iteration - 1

\* the loop can take another turn: update_pass returns and the turn is in range
CanTurn ==
    /\ iteration <= MaxIteration
    /\ update_pass(Self, updated_source, parse_ok) # {}

C2_Counts(n, left, edits) ==
    /\ edits + left = n
    /\ edits <= n
    /\ pc = "Done" => edits = n

\* C2: the loop always reaches Done; every edit lowers the number of
\* declarations matching the filter by one, so the edits applied are exactly
\* the initial match count N, never more.
C2_Termination ==
    /\ pc = "Done" \/ CanTurn
    /\ C2_Counts(MatchCount(source), MatchCount(updated_source), EditsApplied)

\* the loop ended after two edits under a name filter
C2_Witness ==
    /\ pc = "Done" /\ EditsApplied = 2 /\ MatchCount(source) = 2
    /\ package_name # None

\* the indices of the entries that pass the filter
MatchingIn(entries) == {i \in DOMAIN entries : MatchesUpdate(Self, entries[i][2])}

PackageAmong(found, entries) == {i \in DOMAIN entries : entries[i] = found[1].package[1]}

\* the pass replaced the version literal of entry i, and nothing else
EditedEntry(before, after, i) ==
    /\ updated_source' =
          edit_span(updated_source, before[i][1].start, before[i][1].end,
                    quoted(new_version))
    /\ Len(after) = Len(before)
    /\ after[i][2].version = new_version
    /\ \A j \in DOMAIN before : j # i => after[j][2] = before[j][2]

PassSelectsAmong(firstInSourceOrder, before, after, matching, package) ==
    IF matching = {}
    THEN updated_source' = updated_source /\ pc' = "Done"
    ELSE /\ pc' = "Scanning"
         /\ \E i \in matching :
               /\ EditedEntry(before, after, i)
               /\ package # {} => i \in package
               /\ (firstInSourceOrder /\ package = {}) => \A j \in matching : i <= j

PassSelectsOn(firstInSourceOrder, found, before, after) ==
    PassSelectsAmong(firstInSourceOrder, before, after, MatchingIn(before),
                     PackageAmong(found, before) \cap MatchingIn(before))

PassSelectsOf(firstInSourceOrder, found, after) ==
    PassSelectsOn(firstInSourceOrder, found, ExtractedOf(found), after)

PassSelects(firstInSourceOrder) ==
    pc = "Scanning" =>
        PassSelectsOf(firstInSourceOrder,
                      find_package_and_deps(TomlParser_new(updated_source, TRUE)[1]),
                      Extracted(updated_source'))

\* C3 as stated: a pass edits the package's version literal when the package
\* matches, otherwise the first matching dependency in source order,
\* otherwise nothing; one literal per pass.
C3_AsStated == [][PassSelects(TRUE)]_vars

\* C3 amended: a pass edits the package's version literal when the package
\* matches, otherwise one of the matching dependencies (whichever the hash
\* map yields first), otherwise nothing; one literal per pass.
C3_Selection == [][PassSelects(FALSE)]_vars

C3_WitnessOn(first, found, now) ==
    /\ Len(first) = Len(now)
    /\ \E i, j \in DOMAIN now :
          /\ i < j
          /\ i \in MatchingIn(now)
          /\ first[j][2].version = current_version
          /\ now[j][2].version = new_version
          /\ j \notin PackageAmong(found, now) /\ i \notin PackageAmong(found, now)

C3_WitnessOf(first, found) == C3_WitnessOn(first, found, ExtractedOf(found))

\* a pass has edited a dependency while another matching dependency, earlier
\* in the source, is still at the current version
C3_Witness ==
    /\ pc = "Scanning" /\ iteration > 1
    /\ C3_WitnessOf(Extracted(source),
                    find_package_and_deps(TomlParser_new(updated_source, TRUE)[1]))

(***************************************************************************)
(* The structural edit.                                                    *)
(***************************************************************************)
SplicedAt(before, after, start_byte, end_byte, new_value) ==
    /\ Len(after) = Len(before) + Len(new_value) - (end_byte - start_byte)
    /\ \A k \in 0..(start_byte - 1) : after[k + 1] = before[k + 1]
    /\ \A k \in 0..(Len(new_value) - 1) : after[start_byte + k + 1] = new_value[k + 1]
    /\ \A k \in end_byte..(Len(before) - 1) :
          after[k + Len(new_value) - (end_byte - start_byte) + 1] = before[k + 1]

\* C4: edit_node returns source[..start] + new_value + source[end..]: every
\* byte before start stays at its offset, every byte from end on stays at
\* its offset shifted by len(new_value) - (end - start).
C4_EditFrame ==
    ret # None =>
        SplicedAt(args.source, ret[1], args.node.start, args.node.end, args.new_value)

\* a node inside the source was replaced by a text of another length, with
\* bytes on both sides of it
C4_Witness ==
    /\ ret # None
    /\ args.node.start > 0 /\ args.node.end < Len(args.source)
    /\ Len(args.new_value) > args.node.end - args.node.start
    /\ args.node.kind = "string"

(***************************************************************************)
(* The filters of the search.                                              *)
(***************************************************************************)
PathsOf(entries) == {entries[i][1] : i \in DOMAIN entries}

EmptyRecord == [package |-> None, dependencies |-> <<>>]

\* the record a list holds for a path; the empty record when it holds none
RecordAt(entries, path) ==
    IF path \in PathsOf(entries)
    THEN entries[CHOOSE i \in DOMAIN entries : entries[i][1] = path][2]
    ELSE EmptyRecord

OncePerPath(entries) == \A i, j \in DOMAIN entries : entries[i][1] = entries[j][1] => i = j

VersionPasses(info) == version = None \/ info.version = version[1]

NamePasses(info) == package_name = None \/ info.name = package_name[1]

Passes(info) == VersionPasses(info) /\ NamePasses(info)

\* a record with exactly what passes every active predicate
KeptOf(rec) ==
    [package |->
        IF rec.package # None /\ Passes(rec.package[1]) THEN rec.package ELSE None,
     dependencies |-> SelectSeq(rec.dependencies, Passes)]

Searched == spc \in {"searched", "fuzzy", "displayed"}

\* C5: after the search the record of every file keeps the package identity
\* iff it passes every active predicate (version equality, name equality)
\* and keeps exactly the dependencies that pass every active predicate, each
\* once and in their order; nothing else is in the result.
C5_FilterSemantics ==
    Searched =>
        /\ OncePerPath(pkg_deps_dirs)
        /\ PathsOf(pkg_deps_dirs) \subseteq PathsOf(package_dirs)
        /\ \A i \in DOMAIN package_dirs :
              RecordAt(pkg_deps_dirs, package_dirs[i][1]) = KeptOf(package_dirs[i][2])

C5_WitnessOn(before, after) ==
    /\ before.package # None /\ after.package = None
    /\ Len(before.dependencies) = 2 /\ Len(after.dependencies) = 1

\* both criteria set: a package was dropped, one of its two dependencies kept
C5_Witness ==
    /\ spc = "searched" /\ version # None /\ package_name # None
    /\ \E i \in DOMAIN package_dirs :
          C5_WitnessOn(package_dirs[i][2], RecordAt(pkg_deps_dirs, package_dirs[i][1]))

VersionStage(entries) ==
    IF version # None THEN filter_by_version(entries, version[1]) ELSE entries

NameStage(entries) ==
    IF package_name # None THEN filter_by_package_name(entries, package_name[1]) ELSE entries

\* one filter with the conjunction of the active predicates
CombinedFilter(entries) ==
    IF version = None /\ package_name = None THEN entries
    ELSE SelectSeq([i \in DOMAIN entries |-> <<entries[i][1], KeptOf(entries[i][2])>>],
                   LAMBDA e : e[2] # EmptyRecord)

\* C6: the version stage followed by the name stage, as Search::search runs
\* them, gives what the name stage followed by the version stage gives and
\* what one filter with the combined predicate gives; the second stage
\* brings back no entry the first removed.
C6_Composition ==
    [][spc = "name" =>
          /\ pkg_deps_dirs' = VersionStage(NameStage(package_dirs))
          /\ pkg_deps_dirs' = CombinedFilter(package_dirs)
          /\ PathsOf(pkg_deps_dirs') \subseteq PathsOf(pkg_deps_dirs)]_vars

\* both stages ran with their criteria set; the version stage removed an
\* entry that the name stage on its own keeps
C6_Witness ==
    /\ spc = "displayed" /\ version # None /\ package_name # None
    /\ Len(package_dirs) = 2
    /\ Len(VersionStage(package_dirs)) = 1
    /\ Len(NameStage(package_dirs)) = 2
    /\ Len(pkg_deps_dirs) = 1

NameMatches(name, criterion, bothSides) ==
    strip_quotes(name) = IF bothSides THEN strip_quotes(criterion) ELSE criterion

NameKept(before, after, criterion, bothSides) ==
    /\ after.package =
          IF before.package # None
                /\ NameMatches(before.package[1].name, criterion, bothSides)
          THEN before.package ELSE None
    /\ after.dependencies =
          SelectSeq(before.dependencies,
                    LAMBDA dep : NameMatches(dep.name, criterion, bothSides))

\* the name stage keeps the identities whose name matches the criterion
NameStageKeeps(bothSides) ==
    (spc = "name" /\ package_name # None) =>
        \A i \in DOMAIN pkg_deps_dirs :
            NameKept(pkg_deps_dirs[i][2],
                     RecordAt(pkg_deps_dirs', pkg_deps_dirs[i][1]),
                     package_name[1], bothSides)

\* C7 as stated: an identity matches the package-name criterion iff the two
\* are equal after double quotes are stripped from both.
C7_AsStated == [][NameStageKeeps(TRUE)]_vars

\* C7 amended: an identity matches the package-name criterion iff its name,
\* with double quotes stripped, equals the criterion as it was given.
C7_NamePredicate == [][NameStageKeeps(FALSE)]_vars

\* the criterion was given in quotes and, without them, names a package of
\* the directory; the name stage kept nothing
C7_Witness ==
    /\ spc = "fuzzy" /\ version = None
    /\ package_name # None /\ Q \in {package_name[1][i] : i \in DOMAIN package_name[1]}
    /\ \E i \in DOMAIN package_dirs :
          /\ package_dirs[i][2].package # None
          /\ package_dirs[i][2].package[1].name = strip_quotes(package_name[1])
    /\ pkg_deps_dirs = <<>>

(***************************************************************************)
(* The similarity matcher and the fallback of run_search.                  *)
(***************************************************************************)
DistanceTo(target, candidate) == levenshtein(candidate[2].name, target)

\* found holds the first of the candidates at the least distance, or
\* nothing when there is no candidate
FirstMinimum(candidates, target, found) ==
    /\ Len(found) <= 1
    /\ found = <<>> <=> candidates = <<>>
    /\ found # <<>> =>
          \E i \in DOMAIN candidates :
             /\ found[1] = <<candidates[i][1],
                             [package |-> Some(candidates[i][2]),
                              dependencies |-> <<>>]>>
             /\ \A j \in DOMAIN candidates :
                   DistanceTo(target, candidates[j]) >= DistanceTo(target, candidates[i])
             /\ \A j \in 1..(i - 1) :
                   DistanceTo(target, candidates[j]) > DistanceTo(target, candidates[i])

C8_Tie(candidates, target) ==
    /\ Len(candidates) = 2
    /\ DistanceTo(target, candidates[1]) = DistanceTo(target, candidates[2])
    /\ candidates[1][2].name # candidates[2][2].name

C9_FallbackTrigger ==
    /\ spc = "displayed" => (pkg_deps_dirs # <<>> /\ found_packages = pkg_deps_dirs)
    /\ spc = "fuzzy" => pkg_deps_dirs = <<>>
    /\ (spc = "fuzzy" /\ found_packages # <<>>) => package_name # None
    /\ (spc = "fuzzy" /\ package_name = None) => found_packages = <<>>

\* a search by version alone found nothing although the directory has
\* packages the matcher could have offered
C9_Witness ==
    /\ spc = "fuzzy" /\ package_name = None /\ version # None
    /\ package_dirs # <<>>
    /\ load_dirs_pkgs(dir_path) # <<>>
    /\ found_packages = <<>>

(***************************************************************************)
(* The package identity.                                                   *)
(***************************************************************************)
\* the direct pairs of a table whose key is k and whose value is a string
StringPairs(src, table_node, k) ==
    SelectSeq(table_node.children,
              LAMBDA c : /\ c.kind = "pair"
                         /\ utf8_text(src, c.children[1]) = <<k>>
                         /\ c.children[2].kind = "string")

IdentityOf(src, names, versions) ==
    IF names = <<>> \/ versions = <<>> THEN None
    ELSE Some([name |-> strip_quotes(utf8_text(src, names[Len(names)].children[2])),
               version |->
                   strip_quotes(utf8_text(src, versions[Len(versions)].children[2]))])

FoundIdentity(found) ==
    IF found = None THEN None
    ELSE Some([name |-> found[1][2].name, version |-> found[1][2].version])

\* C10: extract_pkg_info yields an identity iff the table has a name key and
\* a version key each paired with a string literal, and then that name and
\* that version; when either is absent or not a string literal it yields
\* nothing; the other keys of the table play no part.
C10_AllOrNothing ==
    ret # None =>
        FoundIdentity(ret[1]) =
            IdentityOf(args.source,
                       StringPairs(args.source, args.table_node, "name"),
                       StringPairs(args.source, args.table_node, "version"))

(***************************************************************************)
(* The dependency identities.                                              *)
(***************************************************************************)
\* the direct pairs of an inline table whose key is version and whose value
\* is a string
VersionStrings(src, inline_table_node) ==
    SelectSeq(inline_table_node.children,
              LAMBDA c : /\ c.kind = "pair"
                         /\ utf8_text(src, c.children[1]) = <<"version">>
                         /\ c.children[2].kind = "string")

Qualifies(src, pair_node) ==
    /\ pair_node.kind = "pair"
    /\ pair_node.children[2].kind = "inline_table"
    /\ VersionStrings(src, pair_node.children[2]) # <<>>

\* the identity a qualifying pair contributes, with the place of its literal
IdentityAt(src, pair_node, version_pair) ==
    [at |-> version_pair.children[2].start,
     name |-> utf8_text(src, pair_node.children[1]),
     version |-> strip_quotes(utf8_text(src, version_pair.children[2]))]

QualifyingIdentities(src, table_node) ==
    {IdentityAt(src, table_node.children[i],
                VersionStrings(src, table_node.children[i].children[2])[1]) :
        i \in {j \in DOMAIN table_node.children : Qualifies(src, table_node.children[j])}}

ExtractedIdentities(deps) ==
    {[at |-> d[1].start, name |-> d[2].name, version |-> d[2].version] : d \in deps}

\* C11: a pair directly under the dependencies table contributes one
\* identity iff its value is an inline table with a version key whose value
\* is a quoted string; bare strings and inline tables without such a version
\* contribute nothing; every qualifying pair is collected, one identity per
\* source position.
C11_DepsExtraction ==
    ret # None =>
        /\ ExtractedIdentities(ret[1]) = QualifyingIdentities(args.source, args.table_node)
        /\ Cardinality(ret[1]) = Cardinality(QualifyingIdentities(args.source, args.table_node))

(***************************************************************************)
(* The record of a document.                                               *)
(***************************************************************************)
\* the identities the package tables of a document yield, in document order
PackageIdentities(src, tree) ==
    Flatten([i \in DOMAIN tree.children |->
                PkgInfoOfTuple(IF tree.children[i].kind = "table"
                               THEN find_package_in_table(src, tree.children[i])
                               ELSE None)])

\* the dependencies the dependencies tables of a document yield
DocumentDeps(src, tree) ==
    UNION {DepsOfOpt(find_deps_in_table(src, tree.children[i])) :
              i \in {j \in DOMAIN tree.children : tree.children[j].kind = "table"}}

FirstWins(identities, record, package) ==
    /\ record # None <=> identities # <<>>
    /\ package # None <=> identities # <<>>
    /\ identities # <<>> =>
          /\ record[1].package[1][2] = identities[1]
          /\ package[1] = identities[1]

\* C12: when more than one table of a document yields a package identity,
\* the record's package is the identity of the first of them in document
\* order, and find_package_and_deps and find_package report the same package.
C12_FirstPackageWins ==
    Len(ret) = 2 =>
        FirstWins(PackageIdentities(args.source, ParseDocument(args.source)),
                  ret[1], ret[2])

RecordIffPackage(identities, deps, record) ==
    /\ record # None <=> identities # <<>>
    /\ record # None =>
          /\ record[1].package # None
          /\ record[1].dependencies = deps

\* C13: find_package_and_deps returns a record iff a package identity is
\* extracted, also when the document has versioned inline-table
\* dependencies, and the record carries every extracted dependency.
C13_RecordIffPackage ==
    Len(ret) >= 1 =>
        RecordIffPackage(PackageIdentities(args.source, ParseDocument(args.source)),
                         DocumentDeps(args.source, ParseDocument(args.source)),
                         ret[1])

\* no record for a document with versioned dependencies and a package table
\* that has no version
C13_Witness ==
    /\ Len(ret) = 1 /\ ret[1] = None
    /\ DocumentDeps(args.source, ParseDocument(args.source)) # {}
    /\ Len(ParseDocument(args.source).children) = 2

(***************************************************************************)
(* The directory operations of run_incv.                                   *)
(***************************************************************************)
HasTargetComponent(path) == \E i \in DOMAIN path : path[i] = "target"

\* the paths of the events of one kind
PathsRead(events) == {events[i][2] : i \in {j \in DOMAIN events : events[j][1] = "read"}}
PathsWritten(events) == {events[i][2] : i \in {j \in DOMAIN events : events[j][1] = "write"}}

\* the paths the summaries printed so far list
PathsListed(events) ==
    UNION {{events[i][2][k].file_path : k \in DOMAIN events[i][2]} :
              i \in {j \in DOMAIN events : events[j][1] = "summary"}}

\* C14: no Cargo.toml whose path has a target component is read into a
\* search result, listed in an edit summary, or rewritten by the edit pass
C14_TargetExclusion ==
    /\ \A i \in DOMAIN pkg_deps_dirs : ~HasTargetComponent(pkg_deps_dirs[i][1])
    /\ \A i \in DOMAIN found_packages : ~HasTargetComponent(found_packages[i][1])
    /\ \A p \in PathsListed(log) : ~HasTargetComponent(p)
    /\ \A p \in PathsWritten(log) : ~HasTargetComponent(p)

\* the files no operation of the directory fails on
Sound(files) ==
    SelectSeq(files, LAMBDA f : f.readable /\ f.parses)

\* the events of the edit pass: what follows the pre-edit summary, printed
\* once the scan has read every file
EditEvents(events, files) == SubSeq(events, Len(files) + 2, Len(events))

\* the events of an edit pass that has rewritten the first n files
RewrittenUpTo(files, n) ==
    [k \in 1..(2 * n) |->
        IF k % 2 = 1 THEN <<"read", files[(k + 1) \div 2].path>>
        ELSE <<"write", files[k \div 2].path>>]

SearchScanStops ==
    spc # "Idle" =>
        /\ spc = "error" <=>
              \E i \in DOMAIN dir_path : ~dir_path[i].readable \/ ~dir_path[i].parses
        /\ spc = "error" =>
              package_dirs = <<>> /\ pkg_deps_dirs = <<>> /\ found_packages = <<>>

\* the scan of Increaser::new stops at the first file that cannot be read:
\* the files up to it have been read, nothing is listed or written
EditScanStops ==
    /\ (ipc = "loaded" \/ (ipc = "exit" /\ log # <<<<"exit">>>> /\ PathsListed(log) = {})) =>
          \A i \in DOMAIN dir_path : dir_path[i].readable
    /\ (ipc = "error" /\ cursor = 0) =>
          \E k \in DOMAIN dir_path :
              /\ ~dir_path[k].readable
              /\ \A i \in 1..(k - 1) : dir_path[i].readable
              /\ log = [i \in 1..k |-> <<"read", dir_path[i].path>>] \o <<<<"error">>>>

\* the edit pass stops at the first file it cannot read or write: the files
\* before it are rewritten, the files after it are neither read nor written
EditPassStops ==
    /\ (ipc = "update" /\ cursor >= 1) =>
          EditEvents(log, dir_path) = RewrittenUpTo(dir_path, cursor - 1)
    /\ (ipc = "error" /\ cursor >= 1) =>
          /\ cursor <= Len(dir_path)
          /\ ~dir_path[cursor].readable \/ ~dir_path[cursor].writable
          /\ EditEvents(log, dir_path) =
                RewrittenUpTo(dir_path, cursor - 1)
                    \o <<<<"read", dir_path[cursor].path>>, <<"error">>>>

\* a file that cannot be parsed is no failure of the edit: the scan skips it
\* and the edit pass writes it back as it was
ParseFailureSkipped ==
    ipc # "Idle" =>
        \A i \in DOMAIN dir_path :
            ~dir_path[i].parses =>
                /\ dir_path[i].content = PackageOf(<<"u">>, <<"1">>)
                /\ dir_path[i].path \notin PathsListed(log)
                /\ (ipc = "error" /\ cursor = i) =>
                      ~dir_path[i].readable \/ ~dir_path[i].writable

C16_VersionsIdentical ==
    (ipc # "Idle" /\ current_version = new_version) =>
        /\ ipc \in {"new", "exit"}
        /\ ipc = "exit" => log = <<<<"exit">>>>
        /\ PathsRead(log) = {} /\ PathsWritten(log) = {} /\ PathsListed(log) = {}
        /\ package_dirs = <<>> /\ cursor = 0

\* identical versions on a directory of two files have ended the run
C16_Witness ==
    /\ ipc = "exit" /\ current_version = new_version
    /\ Len(dir_path) = 2
    /\ \A i \in DOMAIN dir_path : dir_path[i].readable

\* the number of packages and dependencies the scan of the edit counts: those
\* of the files it can parse outside target/release and target/debug
RECURSIVE TotalMatches(_)
TotalMatches(files) ==
    IF files = <<>> THEN 0
    ELSE (IF Head(files).parses
             /\ ~path_contains(Head(files).path, <<"target", "release">>)
             /\ ~path_contains(Head(files).path, <<"target", "debug">>)
          THEN MatchCount(Head(files).content) ELSE 0)
         + TotalMatches(Tail(files))

\* the scan has read every file and nothing is written yet
ScanDone ==
    /\ ipc \notin {"Idle", "new"} /\ current_version # new_version
    /\ ~(ipc = "error" /\ cursor = 0)
    /\ PathsWritten(log) = {} /\ cursor <= 1

AbortedAfterScan(events, files) ==
    events = [i \in DOMAIN files |-> <<"read", files[i].path>>] \o <<<<"exit">>>>

ZeroMatchesOn(total) ==
    /\ total = 0 => (ipc = "exit" /\ AbortedAfterScan(log, dir_path))
    /\ total > 0 => (ipc # "exit" \/ PathsListed(log) # {})

\* C17: when the scan of the whole directory counts no match the run exits
\* with nothing listed and nothing written; when it counts one, files
\* without a match among the files do not end it
C17_ZeroMatches == ScanDone => ZeroMatchesOn(TotalMatches(dir_path))

\* a run over a file without a match and a file with one has reached the
\* edit pass
C17_Witness ==
    /\ ipc = "update" /\ cursor = 1 /\ Len(dir_path) = 2
    /\ \A i \in DOMAIN dir_path : dir_path[i].parses
    /\ \E i \in DOMAIN package_dirs : count(package_dirs[i][2]) = 0
    /\ \E i \in DOMAIN package_dirs : count(package_dirs[i][2]) > 0

SummaryIndexes(events) == {j \in DOMAIN events : events[j][1] = "summary"}
WriteIndexes(events) == {j \in DOMAIN events : events[j][1] = "write"}

\* the edit pass has returned Ok and run_incv has gone on
EditPassOver == ipc \notin {"Idle", "update"} /\ cursor >= 1 /\ cursor > Len(dir_path)

\* C18: no file is written before the pre-edit summary, and once the edit
\* pass is over the post-edit summary is produced, after every write
C18_TripleView ==
    /\ \A w \in WriteIndexes(log) : \E p \in SummaryIndexes(log) : p < w
    /\ EditPassOver =>
          /\ log[Len(log)][1] = "summary"
          /\ Cardinality(SummaryIndexes(log)) = 2
          /\ \A w \in WriteIndexes(log) : w < Len(log)

NonEmptyRecord(pkg_deps) == pkg_deps.package # None \/ pkg_deps.dependencies # <<>>

\* the entries of package_dirs with a package or a dependency, as the summary
\* lists them
ListedOf(entries) ==
    SelectSeq([i \in DOMAIN entries |->
                  [file_path |-> entries[i][1], matches |-> count(entries[i][2]),
                   pkg_deps |-> entries[i][2]]],
              LAMBDA m : NonEmptyRecord(m.pkg_deps))

\* C20: after a search with a criterion every entry of pkg_deps_dirs, and in
\* every edit summary every VersionMatch, has a package or a dependency; the
\* pre-edit summary lists the scanned entries that have one and no other
C20_NoEmptyEntries ==
    /\ (spc \in {"searched", "fuzzy", "displayed"}
            /\ (version # None \/ package_name # None)) =>
          \A i \in DOMAIN pkg_deps_dirs : NonEmptyRecord(pkg_deps_dirs[i][2])
    /\ \A j \in SummaryIndexes(log) :
          \A k \in DOMAIN log[j][2] : NonEmptyRecord(log[j][2][k].pkg_deps)
    /\ ipc = "confirm" => log[Len(log)] = <<"summary", ListedOf(package_dirs)>>

\* the pre-edit summary has left out a scanned file whose record is empty
C20_Witness ==
    /\ ipc = "confirm"
    /\ \E i \in DOMAIN package_dirs : ~NonEmptyRecord(package_dirs[i][2])
    /\ Len(log[Len(log)][2]) < Len(package_dirs)

(***************************************************************************)
(* The retry loop of publish_modules.                                      *)
(***************************************************************************)
\* cargo publish would accept module i with the modules published so far
CouldSucceed(i) ==
    IF requires[i] = 0 THEN TRUE
    ELSE requires[i] # i /\ publish_states[requires[i]] = "Published"

AllPublished == \A i \in DOMAIN publish_states : publish_states[i] = "Published"

\* on return the last sweep made no success or every module is Published,
\* and no Unpublished module could succeed as things are
ReturnedAtFixpoint ==
    ppc = "returned" =>
        /\ AllPublished \/ ~progress
        /\ \A i \in DOMAIN publish_states :
              publish_states[i] = "Unpublished" => ~CouldSucceed(i)

\* a step of a sweep is at the next module in input order, attempts it when and
\* only when it is Unpublished, and changes no other module
SweepStep ==
    (ppc = "inner" /\ idx < Len(publish_states)) =>
        /\ idx' = idx + 1 /\ ppc' = "inner"
        /\ \A i \in DOMAIN publish_states :
              i # idx + 1 => publish_states'[i] = publish_states[i]
        /\ publish_states'[idx + 1] =
              (IF CouldSucceed(idx + 1) THEN "Published" ELSE publish_states[idx + 1])

\* a sweep is followed by the head of the outer loop when and only when it
\* made a success, and changes no module
SweepEnd ==
    (ppc = "inner" /\ idx = Len(publish_states)) =>
        /\ ppc' = (IF progress THEN "outer" ELSE "returned")
        /\ publish_states' = publish_states

\* C19: every sweep attempts each still Unpublished module once, in input
\* order; the sweeps go on until one makes no success; on return the last
\* sweep made none or every module is Published, and no Unpublished module
\* could succeed without another one succeeding first
C19_RetryLoop ==
    /\ []ReturnedAtFixpoint
    /\ [][SweepStep /\ SweepEnd]_vars

\* three modules: the first needs the second, the third can never be
\* published; the first is published by the second sweep
C19_Witness ==
    /\ ppc = "returned" /\ Len(publish_states) = 3
    /\ requires = <<2, 0, 3>>
    /\ publish_states = <<"Published", "Published", "Unpublished">>
    /\ outer_iter = 2

(***************************************************************************)
(* Two extractions of one source.                                          *)
(***************************************************************************)
IdentitiesOf(deps) == {<<deps[i].name, deps[i].version>> : i \in DOMAIN deps}

\* the same package identity and the same dependencies, whatever their order
SameUpToOrder(first, second) ==
    IF first = None \/ second = None THEN first = second
    ELSE /\ first[1][2].package = second[1][2].package
         /\ Len(first[1][2].dependencies) = Len(second[1][2].dependencies)
         /\ \A i \in DOMAIN first[1][2].dependencies :
               \E j \in DOMAIN second[1][2].dependencies :
                   first[1][2].dependencies[i] = second[1][2].dependencies[j]
         /\ IdentitiesOf(first[1][2].dependencies) = IdentitiesOf(second[1][2].dependencies)

SearchKept(pkg_deps) ==
    (IF pkg_deps.package = None THEN {}
     ELSE {<<"package", pkg_deps.package[1].name, pkg_deps.package[1].version>>})
    \cup {<<"dependency", pkg_deps.dependencies[i].name, pkg_deps.dependencies[i].version>> :
            i \in DOMAIN pkg_deps.dependencies}

\* the identities of a PackageAndDepsNodes of the edit engine
EditKept(nodes) ==
    (IF nodes.package = None THEN {}
     ELSE {<<"package", nodes.package[1][2].name, nodes.package[1][2].version>>})
    \cup {<<"dependency", d[2].name, d[2].version>> : d \in nodes.dependencies}

\* what the search has kept of the file at a path
SearchKeptAt(entries, path) ==
    UNION {SearchKept(entries[i][2]) : i \in {j \in DOMAIN entries : entries[j][1] = path}}

\* what the edit filter keeps of an extracted record
EditKeptOf(found) ==
    IF found = None THEN {}
    ELSE EditKept(filter_package_and_deps(
                      VersionUpdate(package_name, version[1], <<>>), found[1]))

EditKeptIn(content) == EditKeptOf(find_package_and_deps(TomlParser_new(content, TRUE)[1]))

\* C22: for every file the search has loaded, a version V and an optional
\* name P, the identities the search keeps (filter_by_version, then
\* filter_package_and_deps of search.rs) are the identities the edit filter
\* keeps of the same record with current_version V and package_name P
C22_FiltersAgree ==
    (spc \in {"searched", "fuzzy", "displayed"} /\ version # None) =>
        \A i \in DOMAIN dir_path :
            ~path_contains(dir_path[i].path, <<"target">>) =>
                SearchKeptAt(pkg_deps_dirs, dir_path[i].path) = EditKeptIn(dir_path[i].content)

\* a search by version and name that kept a dependency of one file and
\* nothing of another
C22_Witness ==
    /\ spc = "searched" /\ version # None /\ package_name # None
    /\ Len(package_dirs) = 2 /\ Len(pkg_deps_dirs) = 1
    /\ pkg_deps_dirs[1][2].package = None
    /\ pkg_deps_dirs[1][2].dependencies # <<>>

(***************************************************************************)
(* The fixpoint under a name filter.                                       *)
(***************************************************************************)
\* the declarations named P at the current version are at the new version,
\* every other declaration is as it was
NamedMoved(before, after, P) ==
    /\ Len(after) = Len(before)
    /\ \A i \in DOMAIN before :
          IF before[i].name = P /\ before[i].version = current_version
          THEN after[i] = [name |-> P, version |-> new_version]
          ELSE after[i] = before[i]

\* C23 as stated: after the driver has run with a name filter P, every
\* declaration named P at version V is at W and every other declaration has
\* the version it had
C23_AsStated ==
    (pc = "Done" /\ package_name # None)
        => NamedMoved(Declared(source), Declared(updated_source), package_name[1])

\* C23 amended: the same, for every source from which find_package_and_deps
\* extracts a record (a package identity is present); from a source without
\* one nothing is edited
C23_NamedFrame ==
    (pc = "Done" /\ package_name # None) =>
        IF HasPackageIdentity(source)
        THEN NamedMoved(Declared(source), Declared(updated_source), package_name[1])
        ELSE updated_source = source

C23_WitnessOn(before, after) ==
    /\ \E i \in DOMAIN before :
          /\ before[i].name = package_name[1] /\ before[i].version = current_version
          /\ after[i].version = new_version
    /\ \E i \in DOMAIN before :
          /\ before[i].name # package_name[1] /\ before[i].version = current_version
          /\ after[i].version = current_version

\* under a name filter one declaration at the current version was rewritten
\* and one of another name at the same version was kept
C23_Witness ==
    /\ pc = "Done" /\ package_name # None /\ HasPackageIdentity(source)
    /\ C23_WitnessOn(Declared(source), Declared(updated_source))

(***************************************************************************)
(* The driver when the parser fails.                                       *)
(***************************************************************************)
\* every declaration of the source is still declared, at the version it had
\* or at the new version
WholeLiterals(before, after) ==
    /\ Len(after) = Len(before)
    /\ \A i \in DOMAIN before :
          /\ after[i].name = before[i].name
          /\ after[i].version \in {before[i].version, new_version}

\* with a failing parser the pass returns None and nothing else; what the
\* driver returns declares what the source declared
FailureHandled ==
    /\ (pc = "Scanning" /\ ~parse_ok) =>
          update_pass(Self, updated_source, parse_ok) = {None}
    /\ pc = "Done" => WholeLiterals(Declared(source), Declared(updated_source))

\* the turn of the loop taken with a failing parser ends the loop and leaves
\* the source as it is
FailureEndsLoop ==
    (pc = "Scanning" /\ ~parse_ok) => (pc' = "Done" /\ updated_source' = updated_source)

\* C24: when TomlParser::new fails in a pass the driver goes to Done and
\* returns the source as it is at that pass, no further edit applied; the
\* pass returns normally, and the source returned holds whole literals only
C24_ParseFailure ==
    /\ []FailureHandled
    /\ [][FailureEndsLoop]_vars

\* the parser failed after one edit with one match left: the driver is Done
C24_Witness ==
    /\ pc = "Done" /\ ~parse_ok
    /\ updated_source # source
    /\ MatchCount(updated_source) > 0

(***************************************************************************)
(* What update_dirs_and_packages returns.                                  *)
(***************************************************************************)
\* update_dirs_and_packages has returned Ok(results)
ReturnedOk == ipc = "update" /\ cursor > Len(dir_path)

\* C25: on success update_dirs_and_packages returns a vector with one entry
\* (file path, package/dependency info) for each Cargo.toml it updated; the
\* files of the pre-edit summary are all updated by a pass that succeeds, so
\* each of them has an entry
C25_ReturnsUpdated ==
    ReturnedOk => PathsListed(log) \subseteq PathsOf(results)

\* what the code returns: the Vec it created, with nothing pushed
ReturnsEmpty ==
    ReturnedOk => (results = <<>> /\ PathsWritten(log) # {})

(***************************************************************************)
(* Publish states and publish commands.                                    *)
(***************************************************************************)
\* the publish commands executed for a directory, in order
CommandsFor(dir) == SelectSeq(commands, LAMBDA c : c[1] = dir)

\* a directory is Published exactly when its last publish command returned
\* Ok, and no command follows one that returned Ok
OncePublished(i) ==
    /\ \A k \in DOMAIN CommandsFor(dirs[i]) :
          CommandsFor(dirs[i])[k][2] => k = Len(CommandsFor(dirs[i]))
    /\ publish_states[i] = "Published" <=>
          (CommandsFor(dirs[i]) # <<>> /\ CommandsFor(dirs[i])[Len(CommandsFor(dirs[i]))][2])

StaysPublished ==
    \A i \in DOMAIN publish_states :
        publish_states[i] = "Published" =>
            /\ publish_states'[i] = "Published"
            /\ CommandsFor(dirs[i])' = CommandsFor(dirs[i])

\* C26: a directory that has become Published stays Published and the publish
\* command is not executed for it again, so the command succeeds at most once
\* per directory; there is one state per input directory, in input order
C26_Monotonic ==
    /\ [](ppc # "Idle" =>
            /\ DOMAIN publish_states = DOMAIN dirs
            /\ \A i \in DOMAIN dirs : OncePublished(i))
    /\ [][StaysPublished]_vars

\* a module published in the first sweep is passed over in a later one, in
\* which another module is published
C26_Witness ==
    /\ ppc = "returned" /\ outer_iter >= 1
    /\ \E i, j \in DOMAIN commands :
          /\ i < j /\ commands[i][2] /\ commands[j][2]
          /\ commands[i][1] # commands[j][1]
          /\ \E k \in DOMAIN commands : i < k /\ k < j /\ ~commands[k][2]

(***************************************************************************)
(* The order of the edits.                                                 *)
(***************************************************************************)
\* the sources a call can return are one source, the one the driver returned
OnlyResult(returned, done, final) ==
    /\ Cardinality(returned) = 1
    /\ done => final \in returned

\* C27: whichever matching dependency each pass edits first, the source
\* update_all_pkg_and_deps returns is the same
C27_Confluence ==
    OnlyResult(update_all_pkg_and_deps(Self, source, parse_ok), pc = "Done", updated_source)

\* the first pass had two dependencies to choose from, and the driver is Done
C27_Witness ==
    /\ pc = "Done"
    /\ Cardinality(update_pass(Self, source, parse_ok)) >= 2

(***************************************************************************)
(* The pre-edit summary and the edit pass.                                 *)
(***************************************************************************)
\* the declarations whose version literal differs between two contents
ChangedIn(before, after) ==
    {<<before[i].name, before[i].version>> :
        i \in {j \in DOMAIN before : j \in DOMAIN after /\ after[j].version # before[j].version}}

NamesVersions(kept) == {<<k[2], k[3]>> : k \in kept}

\* the declarations the summaries printed so far list for a path
ListedFor(version_matches, path) ==
    UNION {NamesVersions(SearchKept(version_matches[k].pkg_deps)) :
              k \in {m \in DOMAIN version_matches : version_matches[m].file_path = path}}

ListedAt(events, path) ==
    UNION {ListedFor(events[i][2], path) :
              i \in {j \in DOMAIN events : events[j][1] = "summary"}}

\* a file the step changes was listed, with the declarations that change
CoveredAt(i) ==
    dir_path'[i].content # dir_path[i].content =>
        /\ dir_path[i].path \in PathsListed(log)
        /\ ChangedIn(Declared(dir_path[i].content), Declared(dir_path'[i].content))
              \subseteq ListedAt(log, dir_path[i].path)

\* C28: every file whose content the edit pass changes was listed, with the
\* declarations that change, in the pre-edit summary
C28_SummaryCoversEdits ==
    [][\A i \in DOMAIN dir_path : CoveredAt(i)]_vars

\* the same, for the files the scan does not drop after reading them
CoveredOutsideBuilds ==
    [][\A i \in DOMAIN dir_path :
          (~path_contains(dir_path[i].path, <<"target", "release">>)
             /\ ~path_contains(dir_path[i].path, <<"target", "debug">>)) => CoveredAt(i)]_vars

(***************************************************************************)
(* The files the edit pass has nothing to edit in.                         *)
(***************************************************************************)
\* a declaration of the content matches the criteria of the run
DeclaresMatch(content) ==
    \E k \in DOMAIN Declared(content) : MatchesUpdate(Self, Declared(content)[k])

\* the file fails to parse, or yields no package identity, or declares nothing
\* that matches
Unmatched(file) ==
    \/ ~file.parses
    \/ ~HasPackageIdentity(file.content)
    \/ ~DeclaresMatch(file.content)

\* C29: a Cargo.toml with no declaration matching the criteria, one with no
\* package table and one that fails to parse have, after each step of the edit
\* pass and so after the pass, the content they had
C29_NonMatchingUnchanged ==
    [][\A i \in DOMAIN dir_path :
          dir_path'[i].content # dir_path[i].content => ~Unmatched(dir_path[i])]_vars

\* the pass is over and has rewritten, with its content, a file that declares
\* a match and fails to parse or has no package table
C29_Witness ==
    /\ ipc = "done"
    /\ \E i \in DOMAIN dir_path :
          /\ dir_path[i].path \in PathsWritten(log)
          /\ DeclaresMatch(dir_path[i].content)
          /\ Unmatched(dir_path[i])

(***************************************************************************)
(* The confirmation of run_incv.                                           *)
(***************************************************************************)
\* the prompt was shown and the answer read was not a yes
Refused == answers # <<>> /\ answers[Len(answers)] # "yes"

Gate ==
    /\ args_yes => answers = <<>>
    /\ (~args_yes /\ config_always_ask_permission /\ PathsWritten(log) # {}) =>
          answers = <<"yes">>
    /\ Refused => (ipc \in {"exit", "panic"} /\ PathsWritten(log) = {})

\* C30: without the yes flag and with always_ask_permission set no file is
\* written unless the answer to the prompt is yes; a declined or default
\* answer ends the run with no file written and no step of the run follows
\* it, so every file is as it was; with the yes flag no prompt is shown
C30_ConfirmationGate ==
    /\ []Gate
    /\ [][~Refused]_vars

\* the user pressed Enter at the prompt: the run has exited after its summary
C30_Witness ==
    /\ ~args_yes /\ config_always_ask_permission
    /\ answers = <<"default">> /\ ipc = "exit"
    /\ PathsListed(log) # {}

====
